---- MODULE Spec2Model ----
(***************************************************************************)
(* Pair-counting and correlation-estimator engine of                       *)
(* halotools/mock_observables/observables.py, modelled as a state machine: *)
(* one call of an estimator entry point walks through its source in order  *)
(* (pool creation, input processing, down-sampling, consistency checks,    *)
(* pair counts, random counts, estimator).                                 *)
(*                                                                         *)
(* Numbers.  The source computes in floating point.  The model computes    *)
(* exactly: a number is <<p, r, q, d>>, the real (p + r*sqrt(q))/d with    *)
(* d > 0 and q square-free, which is closed under the operations the       *)
(* source uses (+, -, *, /, integer square roots of sample sizes).  The    *)
(* value <<0, 0, 0, 0>> stands for a non-finite numpy result (inf, nan).   *)
(*                                                                         *)
(* Geometry.  The spatial entry points are exercised on 1-dimensional      *)
(* samples (k = 1), where the unit-ball coefficient pi^(k/2)/gamma(k/2+1)  *)
(* is exactly 2; a point is the tuple of its coordinates.                  *)
(***************************************************************************)
EXTENDS Integers, Sequences, FiniteSets, TLC

VARIABLES
    in,         \* the arguments of the call, fixed for its duration
    pc,         \* position of the call in the source
    pool,       \* the multiprocessing.Pool of the call: "none", "open", "released"
    loc,        \* the processed locals: sample1, sample2, randoms, rbins, period, PBCs
    counts,     \* the pair counts D1D1, D1D2, D2D2, D1R, D2R, RR of the call
    calls,      \* the pair-counter invocations made so far, in order
    tasks,      \* number of tasks handed to pool.map so far
    result,     \* what the call returned
    err         \* the exception that ended the call, "" if none

vars == <<in, pc, pool, loc, counts, calls, tasks, result, err>>

----------------------------------------------------------------------------
(* Integer helpers *)

Abs(x) ==
    IF x < 0 THEN -x ELSE x

RECURSIVE Gcd(_, _)
Gcd(a, b) ==
    IF b = 0 THEN Abs(a) ELSE Gcd(Abs(b), Abs(a) % Abs(b))

Min2(a, b) ==
    IF a <= b THEN a ELSE b

Max2(a, b) ==
    IF a >= b THEN a ELSE b

RECURSIVE SquarePart(_, _)
\* the largest s <= t with s*s dividing n (n >= 1)
SquarePart(n, t) ==
    IF t <= 1 THEN 1
    ELSE IF n % (t * t) = 0 THEN t
    ELSE SquarePart(n, t - 1)

----------------------------------------------------------------------------
(* Exact numbers (p + r*sqrt(q))/d *)

NonFinite ==
    <<0, 0, 0, 0>>

IsFinite(x) ==
    x[4] # 0

\* lowest terms with a positive denominator; g is the gcd of p, r and d, carrying
\* the sign of d
Lowest(p, r, q, d, g) ==
    <<p \div g, r \div g, q, d \div g>>

SignedGcd(p, r, d) ==
    IF d < 0 THEN -Gcd(Gcd(p, r), d) ELSE Gcd(Gcd(p, r), d)

\* s*s is the square part of q: r*sqrt(q) = (r*s)*sqrt(q/(s*s)), rational when q = s*s
SquareFree(p, r, q, d, s) ==
    IF q = s * s
    THEN Lowest(p + r * s, 0, 1, d, SignedGcd(p + r * s, 0, d))
    ELSE Lowest(p, r * s, q \div (s * s), d, SignedGcd(p, r * s, d))

\* canonical form: d > 0, gcd(p, r, d) = 1, q square-free, q = 1 iff r = 0
Norm(p, r, q, d) ==
    IF d = 0 THEN NonFinite
    ELSE IF r = 0 \/ q = 0 THEN Lowest(p, 0, 1, d, SignedGcd(p, 0, d))
    ELSE SquareFree(p, r, q, d, SquarePart(q, q))

Num(n) ==
    <<n, 0, 1, 1>>

Frac(n, d) ==
    Norm(n, 0, 1, d)

\* n ** 0.5 for an integer n >= 0
Sqrt(n) ==
    IF n = 0 THEN Num(0) ELSE Norm(0, 1, n, 1)

\* the radicand two operands share (1 when both are rational)
Rad(x, y) ==
    IF x[2] # 0 THEN x[3] ELSE y[3]

Add(x, y) ==
    IF ~IsFinite(x) \/ ~IsFinite(y) THEN NonFinite
    ELSE Norm(x[1] * y[4] + y[1] * x[4], x[2] * y[4] + y[2] * x[4], Rad(x, y), x[4] * y[4])

Neg(x) ==
    IF ~IsFinite(x) THEN NonFinite ELSE <<-x[1], -x[2], x[3], x[4]>>

Sub(x, y) ==
    Add(x, Neg(y))

\* two pure surds of different radicands multiply to a surd of the product radicand
Mul(x, y) ==
    IF ~IsFinite(x) \/ ~IsFinite(y) THEN NonFinite
    ELSE IF x[2] # 0 /\ y[2] # 0 /\ x[3] # y[3]
         THEN Norm(0, x[2] * y[2], x[3] * y[3], x[4] * y[4])
    ELSE LET q == Rad(x, y)
         IN  Norm(x[1] * y[1] + x[2] * y[2] * q, x[1] * y[2] + x[2] * y[1], q, x[4] * y[4])

IsZero(x) ==
    IsFinite(x) /\ x[1] = 0 /\ x[2] = 0

\* a guarded division: a zero divisor gives zero
Div_zero_guarded(x, y) ==
    IF ~IsFinite(x) \/ ~IsFinite(y) THEN NonFinite
    ELSE IF IsZero(y) THEN Num(0)
    ELSE LET inv == Norm(y[4] * y[1], -(y[4] * y[2]), y[3], y[1] * y[1] - y[2] * y[2] * y[3])
         IN  Mul(x, inv)

\* numpy array division: a zero divisor gives a non-finite value, no exception
Div(x, y) ==
    IF ~IsFinite(x) \/ ~IsFinite(y) \/ IsZero(y) THEN NonFinite
    ELSE LET inv == Norm(y[4] * y[1], -(y[4] * y[2]), y[3], y[1] * y[1] - y[2] * y[2] * y[3])
         IN  Mul(x, inv)

----------------------------------------------------------------------------
(* Arrays are sequences; element-wise numpy operations *)

Range(s) ==
    {s[i] : i \in 1..Len(s)}

RECURSIVE SeqSum(_)
SeqSum(s) ==
    IF s = <<>> THEN 0 ELSE Head(s) + SeqSum(Tail(s))

RECURSIVE Concat(_)
Concat(ss) ==
    IF ss = <<>> THEN <<>> ELSE Head(ss) \o Concat(Tail(ss))

\* per-bin counts that keep the first cumulative count as a bin of their own
np_diff_prepend(a) ==
    [i \in 1..Len(a) |-> IF i = 1 THEN a[1] ELSE a[i] - a[i - 1]]

\* differences taken the other way round: a[i] - a[i+1]
np_diff_backwards(a) ==
    [i \in 1..(Len(a) - 1) |-> a[i] - a[i + 1]]

\* np.diff of an integer array
np_diff(a) ==
    [i \in 1..(Len(a) - 1) |-> a[i + 1] - a[i]]

\* an integer array as an array of exact numbers
ToNum(a) ==
    [i \in 1..Len(a) |-> Num(a[i])]

SeqMax(s) ==
    CHOOSE m \in Range(s) : \A x \in Range(s) : x <= m

----------------------------------------------------------------------------
(* The pair counter (npairs of pairs.py / kdpairs / cpairs, outside this   *)
(* file): cumulative counts of the pairs with separation <= each bin edge. *)

\* np.inf as a period entry
Inf ==
    -1

\* separation along one axis, wrapped when the axis is periodic
AxisDist(x, y, L) ==
    IF L = Inf THEN Abs(x - y) ELSE Min2(Abs(x - y), L - Abs(x - y))

RECURSIVE Dist2(_, _, _)
\* squared separation of two points of the same dimension
Dist2(a, b, period) ==
    IF a = <<>> THEN 0
    ELSE LET d == AxisDist(Head(a), Head(b), Head(period))
         IN  d * d + Dist2(Tail(a), Tail(b), Tail(period))

npairs(data1, data2, rbins, period) ==
    [i \in 1..Len(rbins) |->
        Cardinality({ab \in (1..Len(data1)) \X (1..Len(data2)) :
                        Dist2(data1[ab[1]], data2[ab[2]], period) <= rbins[i] * rbins[i]})]

_npairs_wrapper(tup) ==
    npairs(tup[1], tup[2], tup[3], tup[4])

----------------------------------------------------------------------------
(* Chunk dispatcher: np.array_split, pool.map and np.sum(..., axis=0) *)

\* a dropped point: the sections after the first start one element late
array_split_drop(ary, n) ==
    LET N      == Len(ary)
        Neach  == N \div n
        extras == N % n
        start(j) == (j - 1) * Neach + Min2(j - 1, extras)
        size(j)  == IF j <= extras THEN Neach + 1 ELSE Neach
    IN  [j \in 1..n |-> SubSeq(ary, IF j = 1 THEN 1 ELSE start(j) + 2, start(j) + size(j))]

\* np.array_split(ary, n): n sections, the first N mod n of size N div n + 1,
\* the others of size N div n
array_split(ary, n) ==
    LET N      == Len(ary)
        Neach  == N \div n
        extras == N % n
        start(j) == (j - 1) * Neach + Min2(j - 1, extras)
        size(j)  == IF j <= extras THEN Neach + 1 ELSE Neach
    IN  [j \in 1..n |-> SubSeq(ary, start(j) + 1, start(j) + size(j))]

\* a reduction that loses the result of the last task
np_sum_skip_last(arrs) ==
    [i \in 1..Len(arrs[1]) |-> SeqSum([j \in 1..(Len(arrs) - 1) |-> arrs[j][i]])]

\* np.sum(list_of_arrays, axis=0)
np_sum_axis0(arrs) ==
    [i \in 1..Len(arrs[1]) |-> SeqSum([j \in 1..Len(arrs) |-> arrs[j][i]])]

\* pool.map(_npairs_wrapper, args): one result per task, in the order of args
pool_map_npairs(args) ==
    [j \in 1..Len(args) |-> _npairs_wrapper(args[j])]

\* "args = [[chunk,other,rbins,period] for chunk in np.array_split(first,N_threads)]"
\* followed by np.sum(pool.map(_npairs_wrapper,args),axis=0)
chunked_cumulative(first, other, rbins, period, N_threads) ==
    LET chunks == array_split(first, N_threads)
        args   == [j \in 1..N_threads |-> <<chunks[j], other, rbins, period>>]
    IN  np_sum_axis0(pool_map_npairs(args))

\* the serial path: npairs(first, other, rbins, period=period)
serial_cumulative(first, other, rbins, period) ==
    npairs(first, other, rbins, period)

----------------------------------------------------------------------------
(* numpy arrays of points: an (N, k) array is [k |-> k, p |-> <<point, ...>>] *)

Arr(k, pts) ==
    [k |-> k, p |-> pts]

len(a) ==
    Len(a.p)

\* np.all(a == b) with numpy's broadcasting of the shapes (Na, ka) and (Nb, kb);
\* shapes that do not broadcast compare unequal
np_all_eq(a, b) ==
    LET Na == len(a)
        Nb == len(b)
        N  == IF Na = Nb THEN Na ELSE IF Na = 1 THEN Nb ELSE Na
        K  == Max2(a.k, b.k)
    IN  /\ (a.k = b.k \/ a.k = 1 \/ b.k = 1)
        /\ (Na = Nb \/ Na = 1 \/ Nb = 1)
        /\ \A i \in 1..N : \A c \in 1..K :
              a.p[IF Na = 1 THEN 1 ELSE i][IF a.k = 1 THEN 1 ELSE c]
                = b.p[IF Nb = 1 THEN 1 ELSE i][IF b.k = 1 THEN 1 ELSE c]

\* the results of "inds = np.arange(0,N); np.random.shuffle(inds); inds[0:m]":
\* every sequence of m distinct indices
ShuffledPrefixes(N, m) ==
    {s \in [1..m -> 1..N] : \A i, j \in 1..m : i # j => s[i] # s[j]}

\* sample[inds]
Take(a, inds) ==
    Arr(a.k, [i \in 1..Len(inds) |-> a.p[inds[i]]])

\* the arrays "sample" can be after "if len(sample)>max_sample_size: ..."
DownSampled(a, max_sample_size) ==
    IF len(a) > max_sample_size
    THEN {Take(a, inds) : inds \in ShuffledPrefixes(len(a), max_sample_size)}
    ELSE {a}

SeqMin(s) ==
    CHOOSE m \in Range(s) : \A x \in Range(s) : m <= x

\* min(period) and max(period), np.inf being the largest value
period_min(period) ==
    IF \A i \in 1..Len(period) : period[i] = Inf THEN Inf
    ELSE SeqMin(SelectSeq(period, LAMBDA L : L # Inf))

period_max(period) ==
    IF \E i \in 1..Len(period) : period[i] = Inf THEN Inf
    ELSE SeqMax(period)

RECURSIVE SeqProd(_)
SeqProd(s) ==
    IF s = <<>> THEN 1 ELSE Head(s) * SeqProd(Tail(s))

----------------------------------------------------------------------------
(* Optional values: None or a value *)

None ==
    [none |-> TRUE, v |-> <<>>]

Some(x) ==
    [none |-> FALSE, v |-> x]

NoErr ==
    [kind |-> "", msg |-> ""]

Error(kind, msg) ==
    [kind |-> kind, msg |-> msg]

----------------------------------------------------------------------------
(* two_point_correlation_function: its nested functions *)

list_estimators ==
    {"Natural", "Davis-Peebles", "Hewett", "Hamilton", "Landy-Szalay"}

\* (pi**(k/2.0)/gamma(k/2.0+1.0))*R**k; the coefficient is 2 at k = 1
nball_volume(R, k) ==
    CASE k = 1 -> 2 * R

\* One pair count of the serial or of the pooled path, by N_threads, as the record
\* of the invocation: which count, the cumulative counts obtained (after the
\* reduction, before np.diff) and the tasks handed to the pool
count_pairs(name, first, other, rbins, period, N_threads) ==
    [name  |-> name,
     cum   |-> IF N_threads = 1
               THEN serial_cumulative(first.p, other.p, rbins, period)
               ELSE chunked_cumulative(first.p, other.p, rbins, period, N_threads),
     tasks |-> IF N_threads = 1 THEN 0 ELSE N_threads]

\* "X = np.diff(X)" of an invocation's cumulative counts
diffed(call) ==
    Some(ToNum(np_diff(call.cum)))

SumTasks(cs) ==
    SeqSum([i \in 1..Len(cs) |-> cs[i].tasks])

\* pair_counts(sample1, sample2, rbins, period, N_thread): D1D1, D1D2, D2D2, with
\* the pair-counter invocations made
pair_counts(sample1, sample2, rbins, period, N_threads) ==
    LET cD1D1 == count_pairs("D1D1", sample1, sample1, rbins, period, N_threads)
        cD1D2 == count_pairs("D1D2", sample1, sample2, rbins, period, N_threads)
        cD2D2 == count_pairs("D2D2", sample2, sample2, rbins, period, N_threads)
    IN  IF np_all_eq(sample1, sample2)
        THEN [D1D1 |-> diffed(cD1D1), D1D2 |-> diffed(cD1D1), D2D2 |-> diffed(cD1D1),
              calls |-> <<cD1D1>>]
        ELSE [D1D1 |-> diffed(cD1D1), D1D2 |-> diffed(cD1D2), D2D2 |-> diffed(cD2D2),
              calls |-> <<cD1D1, cD1D2, cD2D2>>]

\* the two branches of random_counts that count against a random catalog
\* (without PBCs, and with PBCs and randoms): the same statements
empirical_random_counts(sample1, sample2, randoms, rbins, period, N_threads) ==
    LET cRR  == count_pairs("RR", randoms, randoms, rbins, period, N_threads)
        cD1R == count_pairs("D1R", sample1, randoms, rbins, period, N_threads)
        cD2R == count_pairs("D2R", sample2, randoms, rbins, period, N_threads)
    IN  IF np_all_eq(sample1, sample2)
        THEN [D1R |-> diffed(cD1R), D2R |-> None, RR |-> diffed(cRR),
              calls |-> <<cRR, cD1R>>]
        ELSE [D1R |-> diffed(cD1R), D2R |-> diffed(cD2R), RR |-> diffed(cRR),
              calls |-> <<cRR, cD1R, cD2R>>]

\* an analytic branch whose auto-correlation RR is the expected count around one
\* point, dv*rho1, instead of D1R
analytic_random_counts_density(sample1, sample2, rbins, period, k) ==
    LET dv == np_diff([i \in 1..Len(rbins) |-> nball_volume(rbins[i], k)])
        global_volume == SeqProd(period)
        N1   == len(sample1)
        rho1 == Frac(N1, global_volume)
        D1R  == [i \in 1..Len(dv) |-> Mul(Num(N1), Mul(Num(dv[i]), rho1))]
        N2   == len(sample2)
        rho2 == Frac(N2, global_volume)
        D2R  == [i \in 1..Len(dv) |-> Mul(Num(N2), Mul(Num(dv[i]), rho2))]
        RR1  == [i \in 1..Len(dv) |-> Mul(Num(dv[i]), rho1)]
        RR   == [i \in 1..Len(dv) |-> Mul(Num(dv[i]), Frac(N1 * N2, global_volume))]
    IN  IF np_all_eq(sample1, sample2)
        THEN [D1R |-> Some(D1R), D2R |-> None, RR |-> Some(RR1), calls |-> <<>>]
        ELSE [D1R |-> Some(D1R), D2R |-> Some(D2R), RR |-> Some(RR), calls |-> <<>>]

\* an analytic branch whose cross-correlation RR is dv times the product of the two
\* number densities, N1*N2/V^2
analytic_random_counts_product_density(sample1, sample2, rbins, period, k) ==
    LET dv == np_diff([i \in 1..Len(rbins) |-> nball_volume(rbins[i], k)])
        global_volume == SeqProd(period)
        N1   == len(sample1)
        rho1 == Frac(N1, global_volume)
        D1R  == [i \in 1..Len(dv) |-> Mul(Num(N1), Mul(Num(dv[i]), rho1))]
        N2   == len(sample2)
        rho2 == Frac(N2, global_volume)
        D2R  == [i \in 1..Len(dv) |-> Mul(Num(N2), Mul(Num(dv[i]), rho2))]
        RR   == [i \in 1..Len(dv) |-> Mul(Num(dv[i]), Mul(rho1, rho2))]
    IN  IF np_all_eq(sample1, sample2)
        THEN [D1R |-> Some(D1R), D2R |-> None, RR |-> Some(D1R), calls |-> <<>>]
        ELSE [D1R |-> Some(D1R), D2R |-> Some(D2R), RR |-> Some(RR), calls |-> <<>>]

\* the analytic branch of random_counts (no random catalog, periodic box)
analytic_random_counts(sample1, sample2, rbins, period, k) ==
    LET dv == np_diff([i \in 1..Len(rbins) |-> nball_volume(rbins[i], k)])
        global_volume == SeqProd(period)
        N1   == len(sample1)
        rho1 == Frac(N1, global_volume)
        D1R  == [i \in 1..Len(dv) |-> Mul(Num(N1), Mul(Num(dv[i]), rho1))]
        N2   == len(sample2)
        rho2 == Frac(N2, global_volume)
        D2R  == [i \in 1..Len(dv) |-> Mul(Num(N2), Mul(Num(dv[i]), rho2))]
        NR   == N1 * N2
        rhor == Frac(NR, global_volume)
        RR   == [i \in 1..Len(dv) |-> Mul(Num(dv[i]), rhor)]
    IN  IF np_all_eq(sample1, sample2)
        THEN [D1R |-> Some(D1R), D2R |-> None, RR |-> Some(D1R), calls |-> <<>>]
        ELSE [D1R |-> Some(D1R), D2R |-> Some(D2R), RR |-> Some(RR), calls |-> <<>>]

\* random_counts(sample1, sample2, randoms, rbins, period, PBCs, k, N_threads);
\* randoms is None (hasR false) or an array
random_counts(sample1, sample2, hasR, randoms, rbins, period, PBCs, k, N_threads) ==
    IF ~PBCs THEN empirical_random_counts(sample1, sample2, randoms, rbins, period, N_threads)
    ELSE IF hasR THEN empirical_random_counts(sample1, sample2, randoms, rbins, period, N_threads)
    ELSE analytic_random_counts(sample1, sample2, rbins, period, k)

One ==
    Num(1)

Two ==
    Num(2)

\* the exception TP_estimator raises, "" if none: the scalars 1.0/factor**2.0 and
\* 1.0/factor are Python floats, whose division by zero raises
TP_estimator_raises(factor, estimator) ==
    IF estimator \notin list_estimators THEN "ValueError"
    ELSE IF estimator # "Hamilton" /\ IsZero(factor) THEN "ZeroDivisionError"
    ELSE ""

\* an estimator that normalises DD/RR by the factor instead of its square
TP_estimator_unsquared(DD, DR, RR, factor, estimator) ==
    [i \in 1..Len(DD) |->
        CASE estimator = "Natural" ->
               Sub(Div(Mul(Div(One, factor), DD[i]), RR[i]), One)
          [] estimator = "Davis-Peebles" ->
               Sub(Div(Mul(Div(One, Mul(factor, factor)), DD[i]), DR[i]), One)
          [] estimator = "Hewett" ->
               Sub(Div(Mul(Div(One, factor), DD[i]), RR[i]),
                   Div(Mul(Div(One, factor), DR[i]), RR[i]))
          [] estimator = "Hamilton" ->
               Sub(Div(Mul(DD[i], DR[i]), Mul(RR[i], RR[i])), One)
          [] estimator = "Landy-Szalay" ->
               Add(Sub(Div(Mul(Div(One, factor), DD[i]), RR[i]),
                       Div(Mul(Mul(Div(One, factor), Two), DR[i]), RR[i])),
                   One)]

\* an estimator whose Landy-Szalay subtracts DR/RR once instead of twice
TP_estimator_single_DR(DD, DR, RR, factor, estimator) ==
    [i \in 1..Len(DD) |->
        CASE estimator = "Natural" ->
               Sub(Div(Mul(Div(One, Mul(factor, factor)), DD[i]), RR[i]), One)
          [] estimator = "Davis-Peebles" ->
               Sub(Div(Mul(Div(One, factor), DD[i]), DR[i]), One)
          [] estimator = "Hewett" ->
               Sub(Div(Mul(Div(One, Mul(factor, factor)), DD[i]), RR[i]),
                   Div(Mul(Div(One, factor), DR[i]), RR[i]))
          [] estimator = "Hamilton" ->
               Sub(Div(Mul(DD[i], RR[i]), Mul(DR[i], DR[i])), One)
          [] estimator = "Landy-Szalay" ->
               Add(Sub(Div(Mul(Div(One, Mul(factor, factor)), DD[i]), RR[i]),
                       Div(Mul(Div(One, factor), DR[i]), RR[i])),
                   One)]

\* TP_estimator(DD,DR,RR,factor,estimator), element-wise over the bins
TP_estimator(DD, DR, RR, factor, estimator) ==
    [i \in 1..Len(DD) |->
        CASE estimator = "Natural" ->
               Sub(Div(Mul(Div(One, Mul(factor, factor)), DD[i]), RR[i]), One)
          [] estimator = "Davis-Peebles" ->
               Sub(Div(Mul(Div(One, factor), DD[i]), DR[i]), One)
          [] estimator = "Hewett" ->
               Sub(Div(Mul(Div(One, Mul(factor, factor)), DD[i]), RR[i]),
                   Div(Mul(Div(One, factor), DR[i]), RR[i]))
          [] estimator = "Hamilton" ->
               Sub(Div(Mul(DD[i], RR[i]), Mul(DR[i], DR[i])), One)
          [] estimator = "Landy-Szalay" ->
               Add(Sub(Div(Mul(Div(One, Mul(factor, factor)), DD[i]), RR[i]),
                       Div(Mul(Mul(Div(One, factor), Two), DR[i]), RR[i])),
                   One)]

----------------------------------------------------------------------------
(* two_point_correlation_function_jackknife: its nested functions *)

\* strides taken from the divisions of the axes after the first:
\* np.hstack((1,np.cumprod(Nsub[1:])))
strides_from_second(Nsub) ==
    [d \in 1..Len(Nsub) |-> SeqProd(SubSeq(Nsub, 2, d))]

\* "np.hstack((1,np.cumprod(Nsub[:-1])))"
strides(Nsub) ==
    [d \in 1..Len(Nsub) |-> SeqProd(SubSeq(Nsub, 1, d - 1))]

\* "np.sum(np.floor(sample/dL)*strides,axis=1)+1" with dL = Lbox/Nsub, cast to int
j_index(sample, Nsub, Lbox) ==
    [i \in 1..len(sample) |->
        SeqSum([d \in 1..Len(Nsub) |->
                   ((sample.p[i][d] * Nsub[d]) \div Lbox[d]) * strides(Nsub)[d]]) + 1]

get_subvolume_labels(sample1, sample2, randoms, Nsub, Lbox) ==
    [j_index_1 |-> j_index(sample1, Nsub, Lbox),
     j_index_2 |-> j_index(sample2, Nsub, Lbox),
     j_index_random |-> j_index(randoms, Nsub, Lbox),
     N_sub_vol |-> SeqProd(Nsub)]

\* the jackknife pair counter (outside this file): row 0 holds the cumulative counts
\* of all pairs, row L > 0 those of the pairs with no member in subvolume L
jnpairs(data1, data2, rbins, period, weights1, weights2, N_vol_elements) ==
    [j \in 1..(N_vol_elements + 1) |->
        [i \in 1..Len(rbins) |->
            Cardinality({ab \in (1..Len(data1)) \X (1..Len(data2)) :
                /\ Dist2(data1[ab[1]], data2[ab[2]], period) <= rbins[i] * rbins[i]
                /\ (j = 1 \/ (weights1[ab[1]] # j - 1 /\ weights2[ab[2]] # j - 1))})]]

_jnpairs_wrapper(tup) ==
    jnpairs(tup[1], tup[2], tup[3], tup[4], tup[5], tup[6], tup[7])

\* "args = [[first[chunk],other,rbins,period,w_first[chunk],w_other,N_sub_vol]
\*          for chunk in np.array_split(inds,N_threads)]"
\* followed by np.sum(pool.map(_jnpairs_wrapper,args),axis=0)
jchunked_cumulative(first, other, rbins, period, w_first, w_other, N_sub_vol, N_threads) ==
    LET inds   == [i \in 1..Len(first) |-> i]
        chunks == array_split(inds, N_threads)
        args   == [c \in 1..N_threads |->
                      <<[i \in 1..Len(chunks[c]) |-> first[chunks[c][i]]], other, rbins, period,
                        [i \in 1..Len(chunks[c]) |-> w_first[chunks[c][i]]], w_other, N_sub_vol>>]
        parts  == [c \in 1..N_threads |-> _jnpairs_wrapper(args[c])]
    IN  [j \in 1..(N_sub_vol + 1) |-> np_sum_axis0([c \in 1..N_threads |-> parts[c][j]])]

\* one jackknife pair count, serial (also the comm path) or pooled
jcount_pairs(name, first, other, rbins, period, w_first, w_other, N_sub_vol, N_threads) ==
    [name  |-> name,
     cum   |-> IF N_threads = 1
               THEN jnpairs(first.p, other.p, rbins, period, w_first, w_other, N_sub_vol)
               ELSE jchunked_cumulative(first.p, other.p, rbins, period, w_first, w_other,
                                        N_sub_vol, N_threads),
     tasks |-> IF N_threads = 1 THEN 0 ELSE N_threads]

\* "X = np.diff(X,axis=1)"
jdiffed(call) ==
    Some([j \in 1..Len(call.cum) |-> ToNum(np_diff(call.cum[j]))])

\* jnpair_counts(...): the path is chosen by N_threads alone, comm is not consulted
jnpair_counts(sample1, sample2, j_index_1, j_index_2, N_sub_vol, rbins, period, N_threads) ==
    LET c11 == jcount_pairs("D1D1", sample1, sample1, rbins, period, j_index_1, j_index_1,
                            N_sub_vol, N_threads)
        c12 == jcount_pairs("D1D2", sample1, sample2, rbins, period, j_index_1, j_index_2,
                            N_sub_vol, N_threads)
        c22 == jcount_pairs("D2D2", sample2, sample2, rbins, period, j_index_2, j_index_2,
                            N_sub_vol, N_threads)
    IN  IF np_all_eq(sample1, sample2)
        THEN [D1D1 |-> jdiffed(c11), D1D2 |-> jdiffed(c11), D2D2 |-> jdiffed(c11),
              calls |-> <<c11>>]
        ELSE [D1D1 |-> jdiffed(c11), D1D2 |-> jdiffed(c12), D2D2 |-> jdiffed(c22),
              calls |-> <<c11, c12, c22>>]

\* a jrandom_counts that counts RR whatever calculate_rr is
jrandom_counts_always_rr(nameDR, sample, randoms, j_ind, j_index_randoms, N_sub_vol, rbins, period, N_threads, comm, calculate_rr) ==
    LET T   == IF comm THEN 1 ELSE N_threads
        cDR == jcount_pairs(nameDR, sample, randoms, rbins, period, j_ind, j_index_randoms,
                            N_sub_vol, T)
        cRR == jcount_pairs("RR", randoms, randoms, rbins, period, j_index_randoms,
                            j_index_randoms, N_sub_vol, T)
    IN  [DR |-> jdiffed(cDR), RR |-> jdiffed(cRR), calls |-> <<cDR, cRR>>]

\* jrandom_counts(sample, randoms, ..., comm, calculate_rr): DR is always counted
jrandom_counts(nameDR, sample, randoms, j_ind, j_index_randoms, N_sub_vol, rbins, period, N_threads, comm, calculate_rr) ==
    LET T   == IF comm THEN 1 ELSE N_threads
        cDR == jcount_pairs(nameDR, sample, randoms, rbins, period, j_ind, j_index_randoms,
                            N_sub_vol, T)
        cRR == jcount_pairs("RR", randoms, randoms, rbins, period, j_index_randoms,
                            j_index_randoms, N_sub_vol, T)
    IN  IF calculate_rr
        THEN [DR |-> jdiffed(cDR), RR |-> jdiffed(cRR), calls |-> <<cDR, cRR>>]
        ELSE [DR |-> jdiffed(cDR), RR |-> None, calls |-> <<cDR>>]

\* TP_estimator of the jackknife function (the text of the one above) on the rows
\* of two-dimensional counts
TP_estimator_rows(DD, DR, RR, factor, estimator) ==
    [j \in 1..Len(DD) |-> TP_estimator(DD[j], DR[j], RR[j], factor, estimator)]

RECURSIVE NumSum(_)
NumSum(s) ==
    IF s = <<>> THEN Num(0) ELSE Add(Head(s), NumSum(Tail(s)))

\* error2 with the quotient (N_sub_vol-1)/N_sub_vol taken as a floor division of
\* integers
jackknife_error2_floordiv(sub, full, N_sub_vol) ==
    [i \in 1..Len(full) |->
        Mul(Num((N_sub_vol - 1) \div N_sub_vol),
            NumSum([j \in 1..Len(sub) |->
                       Mul(Sub(sub[j][i], full[i]), Sub(sub[j][i], full[i]))]))]

\* error2 with the rows weighted by their position
jackknife_error2_weighted(sub, full, N_sub_vol) ==
    [i \in 1..Len(full) |->
        Mul(Frac(N_sub_vol - 1, N_sub_vol),
            NumSum([j \in 1..Len(sub) |->
                       Mul(Num(j), Mul(Sub(sub[j][i], full[i]), Sub(sub[j][i], full[i])))]))]

\* jackknife_errors(sub,full,N_sub_vol) up to its last statement: error2, of which
\* the function returns the square root error2**0.5
jackknife_error2(sub, full, N_sub_vol) ==
    [i \in 1..Len(full) |->
        Mul(Frac(N_sub_vol - 1, N_sub_vol),
            NumSum([j \in 1..Len(sub) |->
                       Mul(Sub(sub[j][i], full[i]), Sub(sub[j][i], full[i]))]))]

----------------------------------------------------------------------------
(* angular_two_point_correlation_function: its nested functions.           *)
(* Sky positions are (ra, dec) with dec = 0, angles in units of 60         *)
(* degrees.  spherical_to_cartesian and chord_to_cartesian (in             *)
(* halotools.utils.spherical_geometry) map positions to unit vectors and   *)
(* angles to chords, so that npairs on them counts the pairs whose angular *)
(* separation is <= each angle.                                            *)

\* 360 degrees in the angle unit
FullCircle ==
    6

\* npairs(xyz_a, xyz_b, c_bins): pairs by angular separation along the equator
ang_npairs(data1, data2, theta_bins) ==
    npairs([i \in 1..Len(data1) |-> <<data1[i][1]>>],
           [i \in 1..Len(data2) |-> <<data2[i][1]>>], theta_bins, <<FullCircle>>)

\* cap_area(C)/pi for the chord of the angle theta: 2*(1 - cos(theta))
cap_area_over_pi(theta) ==
    CASE theta = 0 -> 0
      [] theta = 1 -> 1
      [] theta = 2 -> 3
      [] theta = 3 -> 4

\* global_area = 4.0*np.pi, over pi
global_area_over_pi ==
    4

\* "args = [[chunk,other,theta_bins] for chunk in np.array_split(first,N_threads)]"
\* followed by np.sum(pool.map(_npairs_wrapper,args),axis=0)
ang_chunked_cumulative(first, other, theta_bins, N_threads) ==
    LET chunks == array_split(first, N_threads)
    IN  np_sum_axis0([j \in 1..N_threads |-> ang_npairs(chunks[j], other, theta_bins)])

\* one pair count of the comm, the serial or the pooled path
ang_count_pairs(name, first, other, theta_bins, N_threads, comm) ==
    [name  |-> name,
     cum   |-> IF comm \/ N_threads = 1
               THEN ang_npairs(first.p, other.p, theta_bins)
               ELSE ang_chunked_cumulative(first.p, other.p, theta_bins, N_threads),
     tasks |-> IF comm \/ N_threads = 1 THEN 0 ELSE N_threads]

\* "D2D2=False" of the comm and serial paths: a value that is no count
NotCounted ==
    [none |-> TRUE, v |-> <<FALSE>>]

\* the invocations among cs that are made
Made(cs) ==
    SelectSeq(cs, LAMBDA c : c.made)

Invocation(made, call) ==
    [made |-> made, call |-> call]

CallsOf(cs) ==
    [i \in 1..Len(Made(cs)) |-> Made(cs)[i].call]

\* pair_counts(sample1, sample2, theta_bins, N_threads, do_auto, do_cross, do_DD, comm)
ang_pair_counts(sample1, sample2, theta_bins, N_threads, do_auto, do_cross, do_DD, comm) ==
    LET c11  == ang_count_pairs("D1D1", sample1, sample1, theta_bins, N_threads, comm)
        c12  == ang_count_pairs("D1D2", sample1, sample2, theta_bins, N_threads, comm)
        c22  == ang_count_pairs("D2D2", sample2, sample2, theta_bins, N_threads, comm)
        D1D1 == IF do_auto THEN diffed(c11) ELSE None
    IN  IF np_all_eq(sample1, sample2)
        THEN [D1D1 |-> D1D1, D1D2 |-> D1D1, D2D2 |-> D1D1,
              calls |-> CallsOf(<<Invocation(do_auto, c11)>>)]
        ELSE [D1D1 |-> D1D1,
              D1D2 |-> IF do_cross THEN diffed(c12) ELSE None,
              D2D2 |-> IF do_auto THEN diffed(c22)
                       ELSE IF comm \/ N_threads = 1 THEN NotCounted ELSE None,
              calls |-> CallsOf(<<Invocation(do_auto, c11), Invocation(do_cross, c12),
                                  Invocation(do_auto, c22)>>)]

\* the branch of random_counts that counts against the random catalog; the comm
\* path skips D2R ("if True==False")
ang_empirical_random_counts(sample1, sample2, randoms, theta_bins, N_threads, do_RR, do_DR, comm) ==
    LET cRR  == ang_count_pairs("RR", randoms, randoms, theta_bins, N_threads, comm)
        cD1R == ang_count_pairs("D1R", sample1, randoms, theta_bins, N_threads, comm)
        cD2R == ang_count_pairs("D2R", sample2, randoms, theta_bins, N_threads, comm)
        doD2R == ~np_all_eq(sample1, sample2) /\ ~comm /\ do_DR
    IN  [RR  |-> IF do_RR THEN diffed(cRR) ELSE None,
         D1R |-> IF do_DR THEN diffed(cD1R) ELSE None,
         D2R |-> IF doD2R THEN diffed(cD2R) ELSE None,
         calls |-> CallsOf(<<Invocation(do_RR, cRR), Invocation(do_DR, cD1R),
                             Invocation(doD2R, cD2R)>>)]

\* the analytic branch of random_counts (full sky, no random catalog)
ang_analytic_random_counts(sample1, sample2, theta_bins) ==
    LET dv == np_diff([i \in 1..Len(theta_bins) |-> cap_area_over_pi(theta_bins[i])])
        N1   == len(sample1)
        rho1 == Frac(N1, global_area_over_pi)
        D1R  == [i \in 1..Len(dv) |-> Mul(Num(N1), Mul(Num(dv[i]), rho1))]
        N2   == len(sample2)
        rho2 == Frac(N2, global_area_over_pi)
        D2R  == [i \in 1..Len(dv) |-> Mul(Num(N2), Mul(Num(dv[i]), rho2))]
        NR   == N1 * N2
        rhor == Frac(NR, global_area_over_pi)
        RR   == [i \in 1..Len(dv) |-> Mul(Num(dv[i]), rhor)]
    IN  IF np_all_eq(sample1, sample2)
        THEN [D1R |-> Some(D1R), D2R |-> None, RR |-> Some(D1R), calls |-> <<>>]
        ELSE [D1R |-> Some(D1R), D2R |-> Some(D2R), RR |-> Some(RR), calls |-> <<>>]

\* random_counts(sample1, sample2, randoms, theta_bins, PBCs, N_threads, do_RR, do_DR, comm)
ang_random_counts(sample1, sample2, randoms, theta_bins, PBCs, N_threads, do_RR, do_DR, comm) ==
    IF ~PBCs
    THEN ang_empirical_random_counts(sample1, sample2, randoms, theta_bins, N_threads, do_RR, do_DR, comm)
    ELSE ang_analytic_random_counts(sample1, sample2, theta_bins)

\* TP_estimator_requirements(estimator): do_DD, do_DR, do_RR
TP_estimator_requirements(estimator) ==
    CASE estimator = "Natural"       -> [do_DD |-> TRUE, do_DR |-> FALSE, do_RR |-> TRUE]
      [] estimator = "Davis-Peebles" -> [do_DD |-> TRUE, do_DR |-> TRUE, do_RR |-> FALSE]
      [] estimator = "Hewett"        -> [do_DD |-> TRUE, do_DR |-> TRUE, do_RR |-> TRUE]
      [] estimator = "Hamilton"      -> [do_DD |-> TRUE, do_DR |-> TRUE, do_RR |-> TRUE]
      [] estimator = "Landy-Szalay"  -> [do_DD |-> TRUE, do_DR |-> TRUE, do_RR |-> TRUE]

\* The exception the angular TP_estimator raises, "" if none.  The factors are
\* Python scalars (a zero divisor raises); an operand that is None raises
\* TypeError.  The operands are evaluated left to right.
ang_TP_estimator_raises(DD, DR, RR, ND1, ND2, NR1, NR2, estimator) ==
    CASE estimator = "Natural" ->
           IF NR1 * NR2 = 0 \/ ND1 * ND2 = 0 THEN "ZeroDivisionError"
           ELSE IF DD.none \/ RR.none THEN "TypeError" ELSE ""
      [] estimator = "Davis-Peebles" ->
           IF ND1 * NR2 = 0 \/ ND1 * ND2 = 0 THEN "ZeroDivisionError"
           ELSE IF DD.none \/ DR.none THEN "TypeError" ELSE ""
      [] estimator \in {"Hewett", "Landy-Szalay"} ->
           IF NR1 * NR2 = 0 \/ ND1 * ND2 = 0 THEN "ZeroDivisionError"
           ELSE IF DD.none \/ RR.none THEN "TypeError"
           ELSE IF ND1 * NR2 = 0 THEN "ZeroDivisionError"
           ELSE IF DR.none THEN "TypeError" ELSE ""
      [] estimator = "Hamilton" ->
           IF DD.none \/ RR.none \/ DR.none THEN "TypeError" ELSE ""
      [] OTHER -> "ValueError"

\* TP_estimator(DD,DR,RR,ND1,ND2,NR1,NR2,estimator) of the angular function,
\* element-wise over the bins
ang_TP_estimator(DD, DR, RR, ND1, ND2, NR1, NR2, estimator) ==
    [i \in 1..Len(DD) |->
        CASE estimator = "Natural" ->
               LET factor == Frac(ND1 * ND2, NR1 * NR2)
               IN  Sub(Div(Mul(Div(One, factor), DD[i]), RR[i]), One)
          [] estimator = "Davis-Peebles" ->
               LET factor == Frac(ND1 * ND2, ND1 * NR2)
               IN  Sub(Div(Mul(Div(One, factor), DD[i]), DR[i]), One)
          [] estimator = "Hewett" ->
               LET factor1 == Frac(ND1 * ND2, NR1 * NR2)
                   factor2 == Frac(ND1 * NR2, NR1 * NR2)
               IN  Sub(Div(Mul(Div(One, factor1), DD[i]), RR[i]),
                       Div(Mul(Div(One, factor2), DR[i]), RR[i]))
          [] estimator = "Hamilton" ->
               Sub(Div(Mul(DD[i], RR[i]), Mul(DR[i], DR[i])), One)
          [] estimator = "Landy-Szalay" ->
               LET factor1 == Frac(ND1 * ND2, NR1 * NR2)
                   factor2 == Frac(ND1 * NR2, NR1 * NR2)
               IN  Add(Sub(Div(Mul(Div(One, factor1), DD[i]), RR[i]),
                           Div(Mul(Mul(Div(One, factor2), Two), DR[i]), RR[i])),
                       One)]

----------------------------------------------------------------------------
(* The calls explored *)

MaxPts ==
    2

MaxThreads ==
    3

BoxSide ==
    4

\* coordinates of the points, inside the box
Coords ==
    {0, 1, 3}

\* the (N, 1) arrays of at most n points
Samples(n) ==
    {Arr(1, pts) : pts \in UNION {[1..m -> {<<x>> : x \in Coords}] : m \in 0..n}}

NoArr ==
    Arr(1, <<>>)

NoPeriod ==
    [kind |-> "none", v |-> <<>>]

ScalarPeriod(L) ==
    [kind |-> "scalar", v |-> <<L>>]

VectorPeriod(v) ==
    [kind |-> "vector", v |-> v]

\* calls of two_point_correlation_function with a supported estimator, over many
\* samples, bins and thread counts
GeometryCalls ==
    [fn : {"tpcf"},
     sample1 : Samples(MaxPts),
     sample2 : {None, Some(Arr(1, <<<<2>>>>)), Some(Arr(1, <<<<0>>, <<3>>>>)),
                Some(Arr(1, <<<<1>>, <<1>>>>))},
     randoms : {None, Some(Arr(1, <<<<1>>, <<2>>>>)), Some(Arr(1, <<<<0>>, <<1>>, <<3>>>>))},
     rbins : {<<1>>, <<0, 1>>, <<1, 2>>, <<0, 1, 2>>},
     period : {NoPeriod, ScalarPeriod(BoxSide)},
     max_sample_size : {8},
     estimator : {"Natural"},
     N_threads : 1..MaxThreads]

\* calls whose samples exceed max_sample_size
DownsampleCalls ==
    [fn : {"tpcf"},
     sample1 : Samples(MaxPts),
     sample2 : {None, Some(Arr(1, <<<<0>>, <<3>>>>))},
     randoms : {None, Some(Arr(1, <<<<0>>, <<1>>, <<3>>>>))},
     rbins : {<<0, 1, 2>>},
     period : {NoPeriod, ScalarPeriod(BoxSide)},
     max_sample_size : {1},
     estimator : {"Natural", "Hamilton"},
     N_threads : 1..2]

\* calls of every configuration, valid or not, on a fixed small geometry
ConfigCalls ==
    [fn : {"tpcf"},
     sample1 : {Arr(1, <<<<0>>, <<1>>>>)},
     sample2 : {None, Some(Arr(1, <<<<0>>, <<3>>>>)), Some(Arr(2, <<<<0, 0>>, <<3, 1>>>>))},
     randoms : {None, Some(Arr(1, <<<<0>>, <<1>>, <<3>>>>)), Some(NoArr)},
     rbins : {<<0, 2>>, <<1, 2>>, <<1, 3>>},
     period : {NoPeriod, ScalarPeriod(BoxSide), ScalarPeriod(Inf), VectorPeriod(<<BoxSide>>),
               VectorPeriod(<<Inf>>), VectorPeriod(<<BoxSide, BoxSide>>)},
     max_sample_size : {8},
     estimator : list_estimators \cup {"Peebles-Hauser"},
     N_threads : 1..2]

\* calls of angular_two_point_correlation_function
AngularCalls ==
    [fn : {"angular"},
     sample1 : {Arr(2, <<<<0, 0>>, <<1, 0>>, <<3, 0>>>>), Arr(1, <<<<0>>, <<1>>>>)},
     sample2 : {None, Some(Arr(2, <<<<1, 0>>, <<2, 0>>>>)), Some(Arr(1, <<<<0>>, <<3>>>>))},
     randoms : {None, Some(Arr(2, <<<<0, 0>>, <<2, 0>>, <<4, 0>>, <<5, 0>>>>))},
     theta_bins : {<<0, 1>>, <<1, 2, 3>>},
     max_sample_size : {8},
     estimator : list_estimators \cup {"Peebles-Hauser"},
     do_auto : BOOLEAN,
     do_cross : BOOLEAN,
     N_threads : 1..2,
     comm : BOOLEAN]

IntNsub(n) ==
    [kind |-> "int", v |-> <<n>>]

ArrayNsub(v) ==
    [kind |-> "array", v |-> v]

\* calls of two_point_correlation_function_jackknife
JackknifeCalls ==
    [fn : {"jackknife"},
     sample1 : {Arr(1, <<<<0>>, <<1>>, <<3>>>>)},
     sample2 : {None, Some(Arr(1, <<<<0>>, <<3>>>>)), Some(Arr(2, <<<<0, 0>>, <<3, 1>>>>))},
     randoms : {Arr(1, <<<<0>>, <<1>>, <<3>>>>), NoArr},
     rbins : {<<0, 1, 2>>, <<1, 3>>},
     Nsub : {IntNsub(2), ArrayNsub(<<2, 2>>)},
     Lbox : {BoxSide},
     period : {NoPeriod, ScalarPeriod(BoxSide), VectorPeriod(<<BoxSide, BoxSide>>)},
     max_sample_size : {8},
     estimator : {"Natural", "Davis-Peebles", "Landy-Szalay", "Peebles-Hauser"},
     N_threads : 1..2,
     comm : BOOLEAN]

\* jackknife calls whose samples exceed max_sample_size
JackknifeDownsampleCalls ==
    [fn : {"jackknife"},
     sample1 : {Arr(1, <<<<0>>, <<1>>, <<3>>>>)},
     sample2 : {None, Some(Arr(1, <<<<0>>, <<3>>>>))},
     randoms : {Arr(1, <<<<0>>, <<1>>, <<3>>>>), Arr(1, <<<<1>>, <<2>>>>),
                Arr(1, <<<<1>>, <<2>>, <<2>>>>)},
     rbins : {<<0, 1, 2>>},
     Nsub : {IntNsub(2)},
     Lbox : {BoxSide},
     period : {ScalarPeriod(BoxSide)},
     max_sample_size : {2},
     estimator : {"Natural"},
     N_threads : 1..2,
     comm : {FALSE}]

\* calls of projected_cross_two_point_correlation_function; has_cosmo and
\* has_weights tell whether cosmo and the weights are passed or left at None
ProjectedCalls ==
    [fn : {"projected"},
     sample1 : {Arr(2, <<<<0, 0>>, <<1, 0>>>>), Arr(1, <<<<0>>, <<1>>>>)},
     sample2 : {None, Some(Arr(2, <<<<1, 0>>, <<2, 0>>>>)), Some(Arr(1, <<<<0>>, <<3>>>>))},
     randoms : {None, Some(Arr(2, <<<<0, 0>>, <<2, 0>>, <<4, 0>>>>))},
     r_bins : {<<1, 2>>},
     has_cosmo : BOOLEAN,
     has_weights : BOOLEAN,
     max_sample_size : {8},
     estimator : list_estimators \cup {"Peebles-Hauser"},
     N_threads : 1..2,
     comm : BOOLEAN]

\* calls on two axes with a period given per axis: all finite, all infinite, or
\* mixed.  Without randoms only the periods with an infinite axis are taken: the
\* analytic counts of a finite box on two axes have the coefficient pi
PeriodCalls ==
    {c \in [fn : {"tpcf"},
            sample1 : {Arr(2, <<<<0, 0>>, <<1, 3>>>>)},
            sample2 : {None},
            randoms : {None, Some(Arr(2, <<<<0, 1>>, <<3, 0>>>>))},
            rbins : {<<1, 2>>},
            period : {VectorPeriod(<<BoxSide, BoxSide>>), VectorPeriod(<<BoxSide, Inf>>),
                      VectorPeriod(<<Inf, BoxSide>>), VectorPeriod(<<Inf, Inf>>)},
            max_sample_size : {8},
            estimator : {"Natural", "Peebles-Hauser"},
            N_threads : 1..2] :
        c.randoms.none => \E i \in 1..2 : c.period.v[i] = Inf}

\* jackknife calls on two axes with a period that has an infinite axis
JackknifePeriodCalls ==
    [fn : {"jackknife"},
     sample1 : {Arr(2, <<<<0, 0>>, <<1, 3>>>>)},
     sample2 : {None},
     randoms : {Arr(2, <<<<0, 1>>, <<3, 0>>>>)},
     rbins : {<<1, 2>>},
     Nsub : {IntNsub(2)},
     Lbox : {BoxSide},
     period : {ScalarPeriod(Inf), VectorPeriod(<<BoxSide, Inf>>), VectorPeriod(<<Inf, Inf>>)},
     max_sample_size : {8},
     estimator : {"Natural"},
     N_threads : 1..2,
     comm : {FALSE}]

\* jackknife calls with randoms close to each other in every subvolume, so that
\* the counts of the leave-one-out rows are not zero
JackknifeErrorCalls ==
    [fn : {"jackknife"},
     sample1 : {Arr(1, <<<<0>>, <<1>>, <<3>>>>)},
     sample2 : {None, Some(Arr(1, <<<<0>>, <<1>>, <<2>>>>))},
     randoms : {Arr(1, <<<<0>>, <<1>>, <<2>>, <<3>>>>)},
     rbins : {<<0, 1>>, <<0, 1, 2>>},
     Nsub : {IntNsub(2)},
     Lbox : {BoxSide},
     period : {NoPeriod, ScalarPeriod(BoxSide)},
     max_sample_size : {8},
     estimator : {"Natural", "Davis-Peebles", "Landy-Szalay"},
     N_threads : 1..2,
     comm : BOOLEAN]

\* jackknife calls with points on the upper faces of the box, on one axis and on
\* two
JackknifeEdgeCalls ==
    [fn : {"jackknife"},
     sample1 : {Arr(1, <<<<0>>, <<1>>, <<BoxSide>>>>)},
     sample2 : {None},
     randoms : {Arr(1, <<<<0>>, <<1>>, <<2>>, <<3>>>>)},
     rbins : {<<0, 1>>},
     Nsub : {IntNsub(2)},
     Lbox : {BoxSide},
     period : {NoPeriod, ScalarPeriod(BoxSide)},
     max_sample_size : {8},
     estimator : {"Natural"},
     N_threads : 1..2,
     comm : {FALSE}]
      \cup
    [fn : {"jackknife"},
     sample1 : {Arr(2, <<<<0, 0>>, <<3, 1>>, <<1, 3>>>>),
                Arr(2, <<<<0, 0>>, <<BoxSide, 0>>, <<BoxSide, 3>>>>)},
     sample2 : {None, Some(Arr(2, <<<<3, 3>>, <<1, 0>>>>))},
     randoms : {Arr(2, <<<<0, 0>>, <<1, 1>>, <<3, 0>>, <<3, 3>>>>)},
     rbins : {<<0, 1>>},
     Nsub : {IntNsub(2), ArrayNsub(<<2, 3>>)},
     Lbox : {BoxSide},
     period : {ScalarPeriod(BoxSide)},
     max_sample_size : {8},
     estimator : {"Natural"},
     N_threads : 1..2,
     comm : {FALSE}]

\* calls whose bin edges are not in increasing order, which no check rejects
UnsortedBinsCalls ==
    [fn : {"tpcf"},
     sample1 : {Arr(1, <<<<0>>, <<1>>>>)},
     sample2 : {None},
     randoms : {Some(Arr(1, <<<<0>>, <<1>>, <<3>>>>))},
     rbins : {<<2, 1>>},
     period : {NoPeriod},
     max_sample_size : {8},
     estimator : {"Natural"},
     N_threads : 1..2]

\* calls whose rbins is a scalar, not a sequence
ScalarBinsCalls ==
    [fn : {"tpcf"},
     sample1 : {Arr(1, <<<<0>>, <<1>>>>)},
     sample2 : {None, Some(Arr(1, <<<<0>>, <<3>>>>))},
     randoms : {None, Some(Arr(1, <<<<0>>, <<1>>, <<3>>>>))},
     scalar_rbins : {1, 2},
     period : {NoPeriod, ScalarPeriod(BoxSide)},
     max_sample_size : {8},
     estimator : list_estimators,
     N_threads : 1..2]

Calls ==
    GeometryCalls \cup DownsampleCalls \cup ConfigCalls \cup AngularCalls
        \cup JackknifeCalls \cup JackknifeDownsampleCalls \cup ProjectedCalls
        \cup PeriodCalls \cup JackknifePeriodCalls \cup ScalarBinsCalls
        \cup UnsortedBinsCalls \cup JackknifeErrorCalls \cup JackknifeEdgeCalls

\* the randoms argument of a call: required by the jackknife function, None by
\* default in the others
RandomsOf(c) ==
    IF c.fn = "jackknife" THEN Some(c.randoms) ELSE c.randoms

\* the bin edges of a call as an array: "rbins = np.asarray(rbins)" and, for a
\* scalar, "if np.shape(rbins) == (): rbins = np.array([rbins])"
BinsOf(c) ==
    CASE c.fn = "angular" -> c.theta_bins
      [] c.fn = "projected" -> c.r_bins
      [] "scalar_rbins" \in DOMAIN c -> <<c.scalar_rbins>>
      [] OTHER -> c.rbins

NoCounts ==
    [D1D1 |-> None, D1D2 |-> None, D2D2 |-> None, D1R |-> None, D2R |-> None, RR |-> None]

NoResult ==
    [kind |-> "none", xi |-> <<>>, err2 |-> <<>>]

Init ==
    /\ in \in Calls
    /\ pc = "entry"
    /\ pool = "none"
    /\ loc = [sample1 |-> in.sample1, sample2 |-> in.sample1, hasR |-> ~RandomsOf(in).none,
              randoms |-> IF RandomsOf(in).none THEN NoArr ELSE RandomsOf(in).v,
              rbins |-> BinsOf(in), period |-> <<>>, PBCs |-> FALSE, k |-> in.sample1.k,
              factor1 |-> One, factor2 |-> One, factor3 |-> One,
              N1 |-> 1, N2 |-> 1, NR |-> 1,
              do_DD |-> FALSE, do_DR |-> FALSE, do_RR |-> FALSE,
              Nsub |-> <<>>, Lbox |-> <<>>,
              j_index_1 |-> <<>>, j_index_2 |-> <<>>, j_index_random |-> <<>>, N_sub_vol |-> 0]
    /\ counts = NoCounts
    /\ calls = <<>>
    /\ tasks = 0
    /\ result = NoResult
    /\ err = NoErr

\* "raise kind(msg)": the call ends; nothing else changes
Raise(kind, msg) ==
    /\ pc' = "raised"
    /\ err' = Error(kind, msg)

----------------------------------------------------------------------------
(* two_point_correlation_function, statement by statement *)

\* "if N_threads>1: pool = Pool(N_threads)"
TPCF_Pool ==
    /\ in.fn = "tpcf" /\ pc = "entry"
    /\ pool' = IF in.N_threads > 1 THEN "open" ELSE "none"
    /\ pc' = "process"
    /\ UNCHANGED <<in, loc, counts, calls, tasks, result, err>>

\* "process input parameters" and "Process period entry and check for consistency"
TPCF_Process ==
    /\ in.fn = "tpcf" /\ pc = "process"
    /\ LET sample2 == IF ~in.sample2.none THEN in.sample2.v ELSE loc.sample1
           k       == loc.sample1.k
       IN  CASE in.period.kind = "none" ->
                  /\ loc' = [loc EXCEPT !.sample2 = sample2, !.PBCs = FALSE,
                                        !.period = [i \in 1..k |-> Inf]]
                  /\ pc' = "downsample" /\ UNCHANGED err
             [] in.period.kind = "scalar" ->
                  /\ loc' = [loc EXCEPT !.sample2 = sample2, !.PBCs = TRUE,
                                        !.period = [i \in 1..k |-> in.period.v[1]]]
                  /\ pc' = "downsample" /\ UNCHANGED err
             [] in.period.kind = "vector" /\ Len(in.period.v) # k ->
                  /\ loc' = [loc EXCEPT !.sample2 = sample2, !.PBCs = TRUE]
                  /\ Raise("ValueError", "period should have shape (k,)")
             [] in.period.kind = "vector" /\ Len(in.period.v) = k ->
                  /\ loc' = [loc EXCEPT !.sample2 = sample2, !.PBCs = TRUE,
                                        !.period = in.period.v]
                  /\ pc' = "downsample" /\ UNCHANGED err
    /\ UNCHANGED <<in, pool, counts, calls, tasks, result>>

\* "down sample is sample size exceeds max_sample_size"
TPCF_Downsample ==
    /\ in.fn = "tpcf" /\ pc = "downsample"
    /\ \E s2 \in (IF len(loc.sample2) > in.max_sample_size
                     /\ ~np_all_eq(loc.sample1, loc.sample2)
                  THEN DownSampled(loc.sample2, in.max_sample_size)
                  ELSE {loc.sample2}) :
         \E s1 \in DownSampled(loc.sample1, in.max_sample_size) :
            loc' = [loc EXCEPT !.sample1 = s1, !.sample2 = s2]
    /\ pc' = "check"
    /\ UNCHANGED <<in, pool, counts, calls, tasks, result, err>>

\* the comparison with >= in place of >: a bin edge of exactly half the box is
\* rejected too
exceeds_half_box_inclusive(rbins, period) ==
    period_min(period) # Inf /\ 2 * SeqMax(rbins) >= period_min(period)

\* "np.max(rbins)>np.min(period)/2.0"
exceeds_half_box(rbins, period) ==
    period_min(period) # Inf /\ 2 * SeqMax(rbins) > period_min(period)

\* the checks without the one that requires randoms when there is no periodic box
tpcf_checks_without_randoms(l, estimator) ==
    IF exceeds_half_box(l.rbins, l.period)
    THEN Error("ValueError", "Cannot calculate for seperations larger than Lbox/2.")
    ELSE IF l.sample1.k # l.sample2.k
    THEN Error("ValueError", "Sample 1 and sample 2 must have same dimension.")
    ELSE IF estimator \notin list_estimators
    THEN Error("AttributeError", "'str' object has no attribute 'value'")
    ELSE IF l.PBCs /\ period_max(l.period) = Inf
    THEN Error("ValueError", "If a non-infinte PBC specified, all PBCs must be non-infinte.")
    ELSE NoErr

\* the checks without the one of the estimator name, which is then left to
\* TP_estimator
tpcf_checks_without_estimator(l, estimator) ==
    IF exceeds_half_box(l.rbins, l.period)
    THEN Error("ValueError", "Cannot calculate for seperations larger than Lbox/2.")
    ELSE IF l.sample1.k # l.sample2.k
    THEN Error("ValueError", "Sample 1 and sample 2 must have same dimension.")
    ELSE IF ~l.hasR /\ period_min(l.period) = Inf
    THEN Error("ValueError", "If no PBCs are specified, randoms must be provided.")
    ELSE IF l.PBCs /\ period_max(l.period) = Inf
    THEN Error("ValueError", "If a non-infinte PBC specified, all PBCs must be non-infinte.")
    ELSE NoErr

\* "check for input parameter consistency": the exception of the first failing
\* check, NoErr when all pass.  The message of the estimator check is built with
\* str.value, which does not exist: evaluating it raises AttributeError
tpcf_checks(l, estimator) ==
    IF exceeds_half_box(l.rbins, l.period)
    THEN Error("ValueError", "Cannot calculate for seperations larger than Lbox/2.")
    ELSE IF l.sample1.k # l.sample2.k
    THEN Error("ValueError", "Sample 1 and sample 2 must have same dimension.")
    ELSE IF ~l.hasR /\ period_min(l.period) = Inf
    THEN Error("ValueError", "If no PBCs are specified, randoms must be provided.")
    ELSE IF estimator \notin list_estimators
    THEN Error("AttributeError", "'str' object has no attribute 'value'")
    ELSE IF l.PBCs /\ period_max(l.period) = Inf
    THEN Error("ValueError", "If a non-infinte PBC specified, all PBCs must be non-infinte.")
    ELSE NoErr

TPCF_Check ==
    /\ in.fn = "tpcf" /\ pc = "check"
    /\ LET e == tpcf_checks(loc, in.estimator)
       IN  IF e # NoErr THEN Raise(e.kind, e.msg)
           ELSE pc' = "factors" /\ UNCHANGED err
    /\ UNCHANGED <<in, pool, loc, counts, calls, tasks, result>>

\* "factor1 = (len(sample1)*1.0)/len(randoms) ...": a float division
TPCF_Factors ==
    /\ in.fn = "tpcf" /\ pc = "factors"
    /\ LET N1 == len(loc.sample1)
           N2 == len(loc.sample2)
           NR == len(loc.randoms)
       IN  IF loc.hasR /\ NR = 0
           THEN Raise("ZeroDivisionError", "float division by zero") /\ UNCHANGED loc
           ELSE /\ loc' = IF loc.hasR
                          THEN [loc EXCEPT !.factor1 = Frac(N1, NR), !.factor2 = Frac(N2, NR),
                                           !.factor3 = Div(Mul(Sqrt(N1), Sqrt(N2)), Num(NR))]
                          ELSE [loc EXCEPT !.factor1 = One, !.factor2 = One, !.factor3 = One]
                /\ pc' = "pair_counts" /\ UNCHANGED err
    /\ UNCHANGED <<in, pool, counts, calls, tasks, result>>

\* "D1D1,D1D2,D2D2 = pair_counts(sample1, sample2, rbins, period, N_threads)"
TPCF_PairCounts ==
    /\ in.fn = "tpcf" /\ pc = "pair_counts"
    /\ LET c == pair_counts(loc.sample1, loc.sample2, loc.rbins, loc.period, in.N_threads)
       IN  /\ counts' = [counts EXCEPT !.D1D1 = c.D1D1, !.D1D2 = c.D1D2, !.D2D2 = c.D2D2]
           /\ calls' = calls \o c.calls
           /\ tasks' = tasks + SumTasks(c.calls)
    /\ pc' = "random_counts"
    /\ UNCHANGED <<in, pool, loc, result, err>>

\* "D1R, D2R, RR = random_counts(sample1, sample2, randoms, rbins, period, PBCs, k, N_threads)"
TPCF_RandomCounts ==
    /\ in.fn = "tpcf" /\ pc = "random_counts"
    /\ LET c == random_counts(loc.sample1, loc.sample2, loc.hasR, loc.randoms, loc.rbins,
                              loc.period, loc.PBCs, loc.k, in.N_threads)
       IN  /\ counts' = [counts EXCEPT !.D1R = c.D1R, !.D2R = c.D2R, !.RR = c.RR]
           /\ calls' = calls \o c.calls
           /\ tasks' = tasks + SumTasks(c.calls)
    /\ pc' = "estimate"
    /\ UNCHANGED <<in, pool, loc, result, err>>

\* the estimator calls and the return statements at the end of the function
TPCF_Estimate ==
    /\ in.fn = "tpcf" /\ pc = "estimate"
    /\ LET e  == in.estimator
           c  == counts
           f1 == IF np_all_eq(loc.sample2, loc.sample1) \/ ~(loc.PBCs /\ ~loc.hasR)
                 THEN loc.factor1 ELSE One
           f3 == IF loc.PBCs /\ ~loc.hasR THEN One ELSE loc.factor3
           f2 == IF loc.PBCs /\ ~loc.hasR THEN One ELSE loc.factor2
       IN  IF np_all_eq(loc.sample2, loc.sample1)
           THEN IF TP_estimator_raises(f1, e) # ""
                THEN Raise(TP_estimator_raises(f1, e), "TP_estimator") /\ UNCHANGED result
                ELSE /\ result' = [kind |-> "single", err2 |-> <<>>,
                                   xi |-> <<TP_estimator(c.D1D1.v, c.D1R.v, c.RR.v, f1, e)>>]
                     /\ pc' = "returned" /\ UNCHANGED err
           ELSE IF \E f \in {f1, f2, f3} : TP_estimator_raises(f, e) # ""
                THEN Raise("ZeroDivisionError", "TP_estimator") /\ UNCHANGED result
           ELSE IF loc.PBCs /\ ~loc.hasR
                THEN /\ result' = [kind |-> "triple", err2 |-> <<>>,
                                   xi |-> <<TP_estimator(c.D1D1.v, c.D1R.v, c.D1R.v, One, e),
                                            TP_estimator(c.D1D2.v, c.D1R.v, c.RR.v, One, e),
                                            TP_estimator(c.D2D2.v, c.D2R.v, c.D2R.v, One, e)>>]
                     /\ pc' = "returned" /\ UNCHANGED err
                ELSE /\ result' = [kind |-> "triple", err2 |-> <<>>,
                                   xi |-> <<TP_estimator(c.D1D1.v, c.D1R.v, c.RR.v, f1, e),
                                            TP_estimator(c.D1D2.v, c.D1R.v, c.RR.v, f3, e),
                                            TP_estimator(c.D2D2.v, c.D2R.v, c.RR.v, f2, e)>>]
                     /\ pc' = "returned" /\ UNCHANGED err
    /\ UNCHANGED <<in, pool, loc, counts, calls, tasks>>

----------------------------------------------------------------------------
(* angular_two_point_correlation_function, statement by statement *)

\* "if N_threads>1: pool = Pool(N_threads)"
ANG_Pool ==
    /\ in.fn = "angular" /\ pc = "entry"
    /\ pool' = IF in.N_threads > 1 THEN "open" ELSE "none"
    /\ pc' = "process"
    /\ UNCHANGED <<in, loc, counts, calls, tasks, result, err>>

\* "process input parameters": without randoms full sky coverage is assumed
ANG_Process ==
    /\ in.fn = "angular" /\ pc = "process"
    /\ loc' = [loc EXCEPT !.sample2 = IF ~in.sample2.none THEN in.sample2.v ELSE loc.sample1,
                          !.PBCs = in.randoms.none]
    /\ pc' = "downsample"
    /\ UNCHANGED <<in, pool, counts, calls, tasks, result, err>>

\* "down sample is sample size exceeds max_sample_size"
ANG_Downsample ==
    /\ in.fn = "angular" /\ pc = "downsample"
    /\ \E s2 \in (IF len(loc.sample2) > in.max_sample_size
                     /\ ~np_all_eq(loc.sample1, loc.sample2)
                  THEN DownSampled(loc.sample2, in.max_sample_size)
                  ELSE {loc.sample2}) :
         \E s1 \in DownSampled(loc.sample1, in.max_sample_size) :
            loc' = [loc EXCEPT !.sample1 = s1, !.sample2 = s2]
    /\ pc' = "check"
    /\ UNCHANGED <<in, pool, counts, calls, tasks, result, err>>

\* the checks of the angular function: the exception of the first failing check
ang_checks(l, estimator) ==
    IF l.sample1.k # 2
    THEN Error("ValueError", "angular correlation function requires 2-dimensional data")
    ELSE IF l.sample1.k # l.sample2.k
    THEN Error("ValueError", "Sample 1 and sample 2 must have same dimension.")
    ELSE IF estimator \notin list_estimators
    THEN Error("AttributeError", "'str' object has no attribute 'value'")
    ELSE NoErr

ANG_Check ==
    /\ in.fn = "angular" /\ pc = "check"
    /\ LET e == ang_checks(loc, in.estimator)
       IN  IF e # NoErr THEN Raise(e.kind, e.msg)
           ELSE pc' = "factors" /\ UNCHANGED err
    /\ UNCHANGED <<in, pool, loc, counts, calls, tasks, result>>

\* "N1 = len(sample1) ..." (1.0 without randoms) and
\* "do_DD, do_DR, do_RR = TP_estimator_requirements(estimator)"
ANG_Requirements ==
    /\ in.fn = "angular" /\ pc = "factors"
    /\ LET r == TP_estimator_requirements(in.estimator)
       IN  loc' = [loc EXCEPT !.N1 = IF loc.hasR THEN len(loc.sample1) ELSE 1,
                              !.N2 = IF loc.hasR THEN len(loc.sample2) ELSE 1,
                              !.NR = IF loc.hasR THEN len(loc.randoms) ELSE 1,
                              !.do_DD = r.do_DD, !.do_DR = r.do_DR, !.do_RR = r.do_RR]
    /\ pc' = "pair_counts"
    /\ UNCHANGED <<in, pool, counts, calls, tasks, result, err>>

\* "D1D1,D1D2,D2D2 = pair_counts(xyz_1, xyz_2, c_bins, N_threads, do_auto, do_cross, do_DD, comm)"
ANG_PairCounts ==
    /\ in.fn = "angular" /\ pc = "pair_counts"
    /\ LET c == ang_pair_counts(loc.sample1, loc.sample2, loc.rbins, in.N_threads,
                                in.do_auto, in.do_cross, loc.do_DD, in.comm)
       IN  /\ counts' = [counts EXCEPT !.D1D1 = c.D1D1, !.D1D2 = c.D1D2, !.D2D2 = c.D2D2]
           /\ calls' = calls \o c.calls
           /\ tasks' = tasks + SumTasks(c.calls)
    /\ pc' = "random_counts"
    /\ UNCHANGED <<in, pool, loc, result, err>>

\* "D1R, D2R, RR = random_counts(xyz_1, xyz_2, xyz_randoms, c_bins, PBCs, N_threads, do_RR, do_DR, comm)"
ANG_RandomCounts ==
    /\ in.fn = "angular" /\ pc = "random_counts"
    /\ LET c == ang_random_counts(loc.sample1, loc.sample2, loc.randoms, loc.rbins, loc.PBCs,
                                  in.N_threads, loc.do_RR, loc.do_DR, in.comm)
       IN  /\ counts' = [counts EXCEPT !.D1R = c.D1R, !.D2R = c.D2R, !.RR = c.RR]
           /\ calls' = calls \o c.calls
           /\ tasks' = tasks + SumTasks(c.calls)
    /\ pc' = "estimate"
    /\ UNCHANGED <<in, pool, loc, result, err>>

\* the first exception of a sequence of evaluations, "" if none raises
FirstRaised(kinds) ==
    IF \A i \in 1..Len(kinds) : kinds[i] = "" THEN ""
    ELSE kinds[CHOOSE i \in 1..Len(kinds) : kinds[i] # "" /\ \A j \in 1..(i - 1) : kinds[j] = ""]

\* the estimator calls and the return statements at the end of the function:
\* with neither do_auto nor do_cross the function falls off its end (returns None)
ANG_Estimate ==
    /\ in.fn = "angular" /\ pc = "estimate"
    /\ LET e  == in.estimator
           c  == counts
           N1 == loc.N1
           N2 == loc.N2
           NR == loc.NR
           r11 == ang_TP_estimator_raises(c.D1D1, c.D1R, c.RR, N1, N1, NR, NR, e)
           r12 == ang_TP_estimator_raises(c.D1D2, c.D1R, c.RR, N1, N2, NR, NR, e)
           r22 == ang_TP_estimator_raises(c.D2D2, c.D2R, c.RR, N2, N2, NR, NR, e)
           xi_11 == ang_TP_estimator(c.D1D1.v, c.D1R.v, c.RR.v, N1, N1, NR, NR, e)
           xi_12 == ang_TP_estimator(c.D1D2.v, c.D1R.v, c.RR.v, N1, N2, NR, NR, e)
           xi_22 == ang_TP_estimator(c.D2D2.v, c.D2R.v, c.RR.v, N2, N2, NR, NR, e)
           Finish(kind, raised, xi) ==
               IF raised # ""
               THEN Raise(raised, "TP_estimator") /\ UNCHANGED result
               ELSE result' = [kind |-> kind, xi |-> xi, err2 |-> <<>>] /\ pc' = "returned" /\ UNCHANGED err
       IN  IF np_all_eq(loc.sample2, loc.sample1)
           THEN Finish("single", r11, <<xi_11>>)
           ELSE IF in.do_auto /\ in.do_cross
           THEN Finish("triple", FirstRaised(<<r11, r12, r22>>), <<xi_11, xi_12, xi_22>>)
           ELSE IF in.do_cross
           THEN Finish("cross", r12, <<xi_12>>)
           ELSE IF in.do_auto
           THEN Finish("autos", FirstRaised(<<r11, r22>>), <<xi_11, xi_22>>)
           ELSE Finish("None", "", <<>>)
    /\ UNCHANGED <<in, pool, loc, counts, calls, tasks>>

----------------------------------------------------------------------------
(* two_point_correlation_function_jackknife, statement by statement *)

\* "if N_threads>1: pool = Pool(N_threads)"
JK_Pool ==
    /\ in.fn = "jackknife" /\ pc = "entry"
    /\ pool' = IF in.N_threads > 1 THEN "open" ELSE "none"
    /\ pc' = "process"
    /\ UNCHANGED <<in, loc, counts, calls, tasks, result, err>>

\* "process input parameters" and "Process period entry and check for consistency"
JK_Process ==
    /\ in.fn = "jackknife" /\ pc = "process"
    /\ LET k  == loc.sample1.k
           l1 == [loc EXCEPT !.sample2 = IF ~in.sample2.none THEN in.sample2.v ELSE loc.sample1,
                             !.Nsub = IF in.Nsub.kind = "int"
                                      THEN [i \in 1..k |-> in.Nsub.v[1]] ELSE in.Nsub.v,
                             !.Lbox = [i \in 1..k |-> in.Lbox],
                             !.PBCs = in.period.kind # "none"]
       IN  CASE in.period.kind = "none" ->
                  /\ loc' = [l1 EXCEPT !.period = [i \in 1..k |-> Inf]]
                  /\ pc' = "downsample" /\ UNCHANGED err
             [] in.period.kind = "scalar" ->
                  /\ loc' = [l1 EXCEPT !.period = [i \in 1..k |-> in.period.v[1]]]
                  /\ pc' = "downsample" /\ UNCHANGED err
             [] in.period.kind = "vector" /\ Len(in.period.v) # k ->
                  /\ loc' = l1
                  /\ Raise("ValueError", "period should have shape (k,)")
             [] in.period.kind = "vector" /\ Len(in.period.v) = k ->
                  /\ loc' = [l1 EXCEPT !.period = in.period.v]
                  /\ pc' = "downsample" /\ UNCHANGED err
    /\ UNCHANGED <<in, pool, counts, calls, tasks, result>>

\* "down sample is sample size exceeds max_sample_size" (the down-sampled randoms
\* are assigned to sample1) and the check of the shape of Nsub that follows
JK_Downsample ==
    /\ in.fn = "jackknife" /\ pc = "downsample"
    /\ \E s2 \in (IF len(loc.sample2) > in.max_sample_size
                     /\ ~np_all_eq(loc.sample1, loc.sample2)
                  THEN DownSampled(loc.sample2, in.max_sample_size)
                  ELSE {loc.sample2}) :
         \E s1 \in DownSampled(loc.sample1, in.max_sample_size) :
            \E s1r \in (IF len(loc.randoms) > in.max_sample_size
                        THEN DownSampled(loc.randoms, in.max_sample_size)
                        ELSE {s1}) :
               /\ loc' = [loc EXCEPT !.sample1 = s1r, !.sample2 = s2]
               /\ IF Len(loc.Nsub) # s1r.k
                  THEN Raise("ValueError", "Nsub should have shape (k,) or be a single integer")
                  ELSE pc' = "check" /\ UNCHANGED err
    /\ UNCHANGED <<in, pool, counts, calls, tasks, result>>

\* "check for input parameter consistency" of the jackknife function: no check of
\* the randoms
jk_checks(l, estimator) ==
    IF exceeds_half_box(l.rbins, l.period)
    THEN Error("ValueError", "Cannot calculate for seperations larger than Lbox/2.")
    ELSE IF l.sample1.k # l.sample2.k
    THEN Error("ValueError", "Sample 1 and sample 2 must have same dimension.")
    ELSE IF estimator \notin list_estimators
    THEN Error("AttributeError", "'str' object has no attribute 'value'")
    ELSE IF l.PBCs /\ period_max(l.period) = Inf
    THEN Error("ValueError", "If a non-infinte PBC specified, all PBCs must be non-infinte.")
    ELSE NoErr

JK_Check ==
    /\ in.fn = "jackknife" /\ pc = "check"
    /\ LET e == jk_checks(loc, in.estimator)
       IN  IF e # NoErr THEN Raise(e.kind, e.msg)
           ELSE pc' = "factors" /\ UNCHANGED err
    /\ UNCHANGED <<in, pool, loc, counts, calls, tasks, result>>

\* "factor1 = (len(sample1)*1.0)/len(randoms) ..." and
\* "j_index_1, j_index_2, j_index_random, N_sub_vol = get_subvolume_labels(...)"
JK_Factors ==
    /\ in.fn = "jackknife" /\ pc = "factors"
    /\ LET N1 == len(loc.sample1)
           N2 == len(loc.sample2)
           NR == len(loc.randoms)
           g  == get_subvolume_labels(loc.sample1, loc.sample2, loc.randoms, loc.Nsub, loc.Lbox)
       IN  IF NR = 0
           THEN Raise("ZeroDivisionError", "float division by zero") /\ UNCHANGED loc
           ELSE /\ loc' = [loc EXCEPT !.factor1 = Frac(N1, NR), !.factor2 = Frac(N2, NR),
                                      !.factor3 = Div(Mul(Sqrt(N1), Sqrt(N2)), Num(NR)),
                                      !.j_index_1 = g.j_index_1, !.j_index_2 = g.j_index_2,
                                      !.j_index_random = g.j_index_random,
                                      !.N_sub_vol = g.N_sub_vol]
                /\ pc' = "pair_counts" /\ UNCHANGED err
    /\ UNCHANGED <<in, pool, counts, calls, tasks, result>>

\* "D1D1, D1D2, D2D2 = jnpair_counts(...)"
JK_PairCounts ==
    /\ in.fn = "jackknife" /\ pc = "pair_counts"
    /\ LET c == jnpair_counts(loc.sample1, loc.sample2, loc.j_index_1, loc.j_index_2,
                              loc.N_sub_vol, loc.rbins, loc.period, in.N_threads)
       IN  /\ counts' = [counts EXCEPT !.D1D1 = c.D1D1, !.D1D2 = c.D1D2, !.D2D2 = c.D2D2]
           /\ calls' = calls \o c.calls
           /\ tasks' = tasks + SumTasks(c.calls)
    /\ pc' = "random_counts"
    /\ UNCHANGED <<in, pool, loc, result, err>>

\* "D1R, RR = jrandom_counts(sample1, randoms, ...)" and, for a cross-correlation,
\* "D2R, RR_dummy = jrandom_counts(sample2, randoms, ..., calculate_rr=False)"
JK_RandomCounts ==
    /\ in.fn = "jackknife" /\ pc = "random_counts"
    /\ LET c1 == jrandom_counts("D1R", loc.sample1, loc.randoms, loc.j_index_1,
                                loc.j_index_random, loc.N_sub_vol, loc.rbins, loc.period,
                                in.N_threads, in.comm, TRUE)
           c2 == jrandom_counts("D2R", loc.sample2, loc.randoms, loc.j_index_2,
                                loc.j_index_random, loc.N_sub_vol, loc.rbins, loc.period,
                                in.N_threads, in.comm, FALSE)
           made == IF np_all_eq(loc.sample1, loc.sample2) THEN c1.calls ELSE c1.calls \o c2.calls
       IN  /\ counts' = [counts EXCEPT !.D1R = c1.DR, !.RR = c1.RR,
                                       !.D2R = IF np_all_eq(loc.sample1, loc.sample2)
                                               THEN c1.DR ELSE c2.DR]
           /\ calls' = calls \o made
           /\ tasks' = tasks + SumTasks(made)
    /\ pc' = "estimate"
    /\ UNCHANGED <<in, pool, loc, result, err>>

\* the correlation functions of the full sample and of the subsamples, their errors
\* and the return statements
JK_Estimate ==
    /\ in.fn = "jackknife" /\ pc = "estimate"
    /\ LET e    == in.estimator
           c    == counts
           N    == loc.N_sub_vol
           full(X) == X[1]
           sub(X)  == SubSeq(X, 2, Len(X))
           xi_full(DD, DR, f) == TP_estimator(full(DD), full(DR), full(c.RR.v), f, e)
           xi_sub(DD, DR, f)  == TP_estimator_rows(sub(DD), sub(DR), sub(c.RR.v), f, e)
           xi_err2(DD, DR, f) == jackknife_error2(xi_sub(DD, DR, f), xi_full(DD, DR, f), N)
           raised == FirstRaised(<<TP_estimator_raises(loc.factor1, e),
                                   TP_estimator_raises(loc.factor3, e),
                                   TP_estimator_raises(loc.factor2, e)>>)
       IN  IF raised # ""
           THEN Raise(raised, "TP_estimator") /\ UNCHANGED result
           ELSE IF np_all_eq(loc.sample1, loc.sample2)
           THEN /\ result' = [kind |-> "single",
                              xi   |-> <<xi_full(c.D1D1.v, c.D1R.v, loc.factor1)>>,
                              err2 |-> <<xi_err2(c.D1D1.v, c.D1R.v, loc.factor1)>>]
                /\ pc' = "returned" /\ UNCHANGED err
           ELSE /\ result' = [kind |-> "triple",
                              xi   |-> <<xi_full(c.D1D1.v, c.D1R.v, loc.factor1),
                                         xi_full(c.D1D2.v, c.D1R.v, loc.factor3),
                                         xi_full(c.D2D2.v, c.D2R.v, loc.factor2)>>,
                              err2 |-> <<xi_err2(c.D1D1.v, c.D1R.v, loc.factor1),
                                         xi_err2(c.D1D2.v, c.D1R.v, loc.factor3),
                                         xi_err2(c.D2D2.v, c.D2R.v, loc.factor2)>>]
                /\ pc' = "returned" /\ UNCHANGED err
    /\ UNCHANGED <<in, pool, loc, counts, calls, tasks>>

----------------------------------------------------------------------------
(* projected_cross_two_point_correlation_function, statement by statement.  *)
(* The angular bins come from the cosmology object and the counts from      *)
(* specific_wnpairs, both outside this repository: the model follows which  *)
(* counts are invoked, which tasks are dispatched and how the call ends,    *)
(* not the values of the counts.                                            *)

\* one invocation of specific_wnpairs, serial (also the comm path) or pooled
proj_count(name, N_threads, comm) ==
    [name |-> name, cum |-> <<>>, tasks |-> IF comm \/ N_threads = 1 THEN 0 ELSE N_threads]

\* a count made by the pair counter, its values not followed
Counted ==
    [none |-> FALSE, v |-> <<>>]

\* pair_counts of the projected function, called with do_auto=False, do_cross=True
proj_pair_counts(sample1, sample2, N_threads, do_auto, do_cross, comm) ==
    LET c11 == Invocation(do_auto, proj_count("D1D1", N_threads, comm))
        c12 == Invocation(do_cross, proj_count("D1D2", N_threads, comm))
        c22 == Invocation(do_auto, proj_count("D2D2", N_threads, comm))
        got(made) == IF made THEN Counted ELSE None
    IN  IF np_all_eq(sample1, sample2)
        THEN [D1D1 |-> got(do_auto), D1D2 |-> got(do_auto), D2D2 |-> got(do_auto),
              calls |-> CallsOf(<<c11>>)]
        ELSE [D1D1 |-> got(do_auto), D1D2 |-> got(do_cross),
              D2D2 |-> IF do_auto THEN Counted
                       ELSE IF comm \/ N_threads = 1 THEN NotCounted ELSE None,
              calls |-> CallsOf(<<c11, c12, c22>>)]

\* random_counts of the projected function: the text of the angular one, with
\* specific_wnpairs as the counter
proj_random_counts(sample1, sample2, PBCs, N_threads, do_RR, do_DR, comm) ==
    LET cRR  == Invocation(do_RR, proj_count("RR", N_threads, comm))
        cD1R == Invocation(do_DR, proj_count("D1R", N_threads, comm))
        cD2R == Invocation(do_DR /\ ~comm, proj_count("D2R", N_threads, comm))
        got(made) == IF made THEN Counted ELSE None
    IN  IF PBCs
        THEN [D1R |-> Counted, RR |-> Counted,
              D2R |-> IF np_all_eq(sample1, sample2) THEN None ELSE Counted, calls |-> <<>>]
        ELSE IF np_all_eq(sample1, sample2)
        THEN [D1R |-> got(do_DR), D2R |-> None, RR |-> got(do_RR), calls |-> CallsOf(<<cRR, cD1R>>)]
        ELSE [D1R |-> got(do_DR), D2R |-> got(do_DR /\ ~comm), RR |-> got(do_RR),
              calls |-> CallsOf(<<cRR, cD1R, cD2R>>)]

\* "do_auto=False; do_cross=True; ...; if N_threads>1: pool = Pool(N_threads)"
PROJ_Pool ==
    /\ in.fn = "projected" /\ pc = "entry"
    /\ pool' = IF in.N_threads > 1 THEN "open" ELSE "none"
    /\ pc' = "process"
    /\ UNCHANGED <<in, loc, counts, calls, tasks, result, err>>

\* "process input parameters"
PROJ_Process ==
    /\ in.fn = "projected" /\ pc = "process"
    /\ loc' = [loc EXCEPT !.sample2 = IF ~in.sample2.none THEN in.sample2.v ELSE loc.sample1,
                          !.PBCs = in.randoms.none]
    /\ pc' = "downsample"
    /\ UNCHANGED <<in, pool, counts, calls, tasks, result, err>>

\* "down sample is sample size exceeds max_sample_size"
PROJ_Downsample ==
    /\ in.fn = "projected" /\ pc = "downsample"
    /\ \E s2 \in (IF len(loc.sample2) > in.max_sample_size
                     /\ ~np_all_eq(loc.sample1, loc.sample2)
                  THEN DownSampled(loc.sample2, in.max_sample_size)
                  ELSE {loc.sample2}) :
         \E s1 \in DownSampled(loc.sample1, in.max_sample_size) :
            loc' = [loc EXCEPT !.sample1 = s1, !.sample2 = s2]
    /\ pc' = "check"
    /\ UNCHANGED <<in, pool, counts, calls, tasks, result, err>>

\* the checks of the projected function are those of the angular one
PROJ_Check ==
    /\ in.fn = "projected" /\ pc = "check"
    /\ LET e == ang_checks(loc, in.estimator)
       IN  IF e # NoErr THEN Raise(e.kind, e.msg)
           ELSE pc' = "factors" /\ UNCHANGED err
    /\ UNCHANGED <<in, pool, loc, counts, calls, tasks, result>>

\* "N1 = len(sample1) ...", "do_DD, do_DR, do_RR = TP_estimator_requirements(estimator)"
\* and "theta_bins = proj_r_to_angular_bins(r_bins, z, N_theta_bins, cosmo)", which
\* calls cosmo.comoving_distance: with cosmo left at None, an AttributeError
PROJ_Requirements ==
    /\ in.fn = "projected" /\ pc = "factors"
    /\ LET r == TP_estimator_requirements(in.estimator)
       IN  loc' = [loc EXCEPT !.N1 = IF loc.hasR THEN len(loc.sample1) ELSE 1,
                              !.N2 = IF loc.hasR THEN len(loc.sample2) ELSE 1,
                              !.NR = IF loc.hasR THEN len(loc.randoms) ELSE 1,
                              !.do_DD = r.do_DD, !.do_DR = r.do_DR, !.do_RR = r.do_RR]
    /\ IF ~in.has_cosmo
       THEN Raise("AttributeError", "'NoneType' object has no attribute 'comoving_distance'")
       ELSE pc' = "pair_counts" /\ UNCHANGED err
    /\ UNCHANGED <<in, pool, counts, calls, tasks, result>>

\* "D1D1,D1D2,D2D2 = pair_counts(xyz_1, xyz_2, weights1, weights2, c_bins, ...)":
\* the pooled path subscripts weights1, a TypeError when the weights are None
PROJ_PairCounts ==
    /\ in.fn = "projected" /\ pc = "pair_counts"
    /\ LET c == proj_pair_counts(loc.sample1, loc.sample2, in.N_threads, FALSE, TRUE, in.comm)
       IN  IF ~in.comm /\ in.N_threads > 1 /\ ~in.has_weights
              /\ ~np_all_eq(loc.sample1, loc.sample2)
           THEN /\ Raise("TypeError", "'NoneType' object has no attribute '__getitem__'")
                /\ UNCHANGED <<counts, calls, tasks>>
           ELSE /\ counts' = [counts EXCEPT !.D1D1 = c.D1D1, !.D1D2 = c.D1D2, !.D2D2 = c.D2D2]
                /\ calls' = calls \o c.calls
                /\ tasks' = tasks + SumTasks(c.calls)
                /\ pc' = "random_counts" /\ UNCHANGED err
    /\ UNCHANGED <<in, pool, loc, result>>

\* "D1R, D2R, RR = random_counts(xyz_1, xyz_2, xyz_randoms, c_bins, PBCs, ...)"
PROJ_RandomCounts ==
    /\ in.fn = "projected" /\ pc = "random_counts"
    /\ LET c == proj_random_counts(loc.sample1, loc.sample2, loc.PBCs, in.N_threads,
                                   loc.do_RR, loc.do_DR, in.comm)
       IN  /\ counts' = [counts EXCEPT !.D1R = c.D1R, !.D2R = c.D2R, !.RR = c.RR]
           /\ calls' = calls \o c.calls
           /\ tasks' = tasks + SumTasks(c.calls)
    /\ pc' = "estimate"
    /\ UNCHANGED <<in, pool, loc, result, err>>

\* "covert angular pair counts to projected pair counts" and
\* "xi_12 = TP_estimator(proj_D1D2,proj_D1R,None,N1,N2,NR,NR,estimator)":
\* the loop subscripts D1D2[j,k] and D1R[j,k] for every point of sample1 (None is
\* not subscriptable, the analytic D1R has one dimension), the estimator is
\* given None for RR, and N1 is by now len(sample1)
PROJ_Estimate ==
    /\ in.fn = "projected" /\ pc = "estimate"
    /\ LET N1 == len(loc.sample1)
           e  == in.estimator
       IN  IF N1 > 0 /\ counts.D1D2.none
           THEN Raise("TypeError", "'NoneType' object has no attribute '__getitem__'")
                /\ UNCHANGED result
           ELSE IF N1 > 0 /\ counts.D1R.none
           THEN Raise("TypeError", "'NoneType' object has no attribute '__getitem__'")
                /\ UNCHANGED result
           ELSE IF N1 > 0 /\ loc.PBCs
           THEN Raise("IndexError", "too many indices") /\ UNCHANGED result
           ELSE IF ang_TP_estimator_raises(Counted, Counted, None, N1, loc.N2, loc.NR, loc.NR, e) # ""
           THEN Raise(ang_TP_estimator_raises(Counted, Counted, None, N1, loc.N2, loc.NR, loc.NR, e),
                      "TP_estimator")
                /\ UNCHANGED result
           ELSE /\ result' = [kind |-> "cross", xi |-> <<>>, err2 |-> <<>>]
                /\ pc' = "returned" /\ UNCHANGED err
    /\ UNCHANGED <<in, pool, loc, counts, calls, tasks>>

Next ==
    \/ TPCF_Pool
    \/ TPCF_Process
    \/ TPCF_Downsample
    \/ TPCF_Check
    \/ TPCF_Factors
    \/ TPCF_PairCounts
    \/ TPCF_RandomCounts
    \/ TPCF_Estimate
    \/ ANG_Pool
    \/ ANG_Process
    \/ ANG_Downsample
    \/ ANG_Check
    \/ ANG_Requirements
    \/ ANG_PairCounts
    \/ ANG_RandomCounts
    \/ ANG_Estimate
    \/ JK_Pool
    \/ JK_Process
    \/ JK_Downsample
    \/ JK_Check
    \/ JK_Factors
    \/ JK_PairCounts
    \/ JK_RandomCounts
    \/ JK_Estimate
    \/ PROJ_Pool
    \/ PROJ_Process
    \/ PROJ_Downsample
    \/ PROJ_Check
    \/ PROJ_Requirements
    \/ PROJ_PairCounts
    \/ PROJ_RandomCounts
    \/ PROJ_Estimate

Spec ==
    Init /\ [][Next]_vars

\* the statements of two_point_correlation_function up to its checks run to their
\* end once begun: the function is sequential code
FairSpec ==
    Spec /\ WF_vars(TPCF_Pool \/ TPCF_Process \/ TPCF_Downsample \/ TPCF_Check)

----------------------------------------------------------------------------
(* The dispatcher's split on its own: np.array_split(ary, n) *)

MaxLen ==
    6

\* point sets of distinct points 0..N-1 and the samples, split in 1..MaxThreads+2
SplitCalls ==
    [fn : {"array_split"},
     ary : {[i \in 1..N |-> <<i - 1>>] : N \in 0..MaxLen} \cup {a.p : a \in Samples(MaxPts)},
     n : 1..(MaxThreads + 2)]

InitSplit ==
    /\ in \in SplitCalls
    /\ pc = "entry"
    /\ pool = "none"
    /\ loc = <<>>
    /\ counts = NoCounts
    /\ calls = <<>>
    /\ tasks = 0
    /\ result = NoResult
    /\ err = NoErr

Call_array_split ==
    /\ in.fn = "array_split" /\ pc = "entry"
    /\ result' = [kind |-> "chunks", xi |-> array_split(in.ary, in.n), err2 |-> <<>>]
    /\ pc' = "returned"
    /\ UNCHANGED <<in, pool, loc, counts, calls, tasks, err>>

SpecSplit ==
    InitSplit /\ [][Call_array_split]_vars

----------------------------------------------------------------------------
(* TP_estimator on its own, on two bins *)

MaxCount ==
    2

\* the factors: 0, 1/MaxCount, MaxCount/3 and sqrt(MaxCount)*sqrt(1)/3
Factors ==
    {Num(0), Frac(1, MaxCount), Frac(MaxCount, 3),
     Div(Mul(Sqrt(MaxCount), Sqrt(1)), Num(3))}

EstimatorCalls ==
    [fn : {"TP_estimator"},
     of : {"tpcf", "jackknife"},
     DD : {<<0, MaxCount>>, <<1, 1>>, <<MaxCount, 0>>},
     DR : [1..2 -> {0, 1, MaxCount}],
     RR : [1..2 -> {0, 1, MaxCount}],
     factor : Factors,
     estimator : list_estimators]

InitEst ==
    /\ in \in EstimatorCalls
    /\ pc = "entry"
    /\ pool = "none"
    /\ loc = <<>>
    /\ counts = NoCounts
    /\ calls = <<>>
    /\ tasks = 0
    /\ result = NoResult
    /\ err = NoErr

\* one call of TP_estimator of two_point_correlation_function, or of the one of
\* the jackknife function on counts of one row
Call_TP_estimator ==
    /\ in.fn = "TP_estimator" /\ pc = "entry"
    /\ LET r  == TP_estimator_raises(in.factor, in.estimator)
           DD == ToNum(in.DD)
           DR == ToNum(in.DR)
           RR == ToNum(in.RR)
       IN  IF r # ""
           THEN Raise(r, "TP_estimator") /\ UNCHANGED result
           ELSE /\ result' =
                     [kind |-> "xi",
                      xi   |-> IF in.of = "jackknife"
                               THEN TP_estimator_rows(<<DD>>, <<DR>>, <<RR>>, in.factor,
                                                      in.estimator)[1]
                               ELSE TP_estimator(DD, DR, RR, in.factor, in.estimator),
                      err2 |-> <<>>]
                /\ pc' = "returned" /\ UNCHANGED err
    /\ UNCHANGED <<in, pool, loc, counts, calls, tasks>>

SpecEst ==
    InitEst /\ [][Call_TP_estimator]_vars

----------------------------------------------------------------------------
(* The estimates and errors of the jackknife function on their own: the    *)
(* counts of the full sample and of MaxRows leave-one-out rows, one bin,   *)
(* with the rows in every order                                            *)

MaxRows ==
    3

\* the counts (DD, DR, RR) of one row
CountRows ==
    {<<0, 1, 1>>, <<1, 1, 2>>, <<2, 2, 1>>, <<1, 0, 0>>}

\* the orders of n rows
RowOrders(n) ==
    {f \in [1..n -> 1..n] : \A i, j \in 1..n : i # j => f[i] # f[j]}

\* "base" holds the leave-one-out rows by subvolume; "order" is the labelling of
\* the subvolumes, row j of the counts being that of subvolume order[j]
JackknifeEstimateCalls ==
    [fn : {"jackknife_errors"},
     full : {<<2, 2, 2>>, <<1, 2, 1>>},
     base : [1..MaxRows -> CountRows],
     order : RowOrders(MaxRows),
     factor : {One},
     estimator : {"Natural", "Davis-Peebles"}]

InitJK ==
    /\ in \in JackknifeEstimateCalls
    /\ pc = "entry"
    /\ pool = "none"
    /\ loc = <<>>
    /\ counts = NoCounts
    /\ calls = <<>>
    /\ tasks = 0
    /\ result = NoResult
    /\ err = NoErr

\* column c of the rows, each entry an array of one bin
Column(rows, c) ==
    [j \in 1..Len(rows) |-> <<Num(rows[j][c])>>]

\* "xi_11_full = TP_estimator(D1D1_full, ...)", "xi_11_sub = TP_estimator(D1D1_sub,
\* ...)" and "xi_11_err = jackknife_errors(xi_11_sub, xi_11_full, N_sub_vol)" on
\* the rows in the order of the labelling
Call_jackknife_errors ==
    /\ in.fn = "jackknife_errors" /\ pc = "entry"
    /\ LET sub     == [j \in 1..MaxRows |-> in.base[in.order[j]]]
           xi_full == TP_estimator(<<Num(in.full[1])>>, <<Num(in.full[2])>>,
                                   <<Num(in.full[3])>>, in.factor, in.estimator)
           xi_sub  == TP_estimator_rows(Column(sub, 1), Column(sub, 2), Column(sub, 3),
                                        in.factor, in.estimator)
       IN  result' = [kind |-> "single", xi |-> <<xi_full>>,
                      err2 |-> <<jackknife_error2(xi_sub, xi_full, MaxRows)>>]
    /\ pc' = "returned"
    /\ UNCHANGED <<in, pool, loc, counts, calls, tasks, err>>

SpecJK ==
    InitJK /\ [][Call_jackknife_errors]_vars

----------------------------------------------------------------------------
(* TP_estimator of the angular function on its own, on two bins, as it is  *)
(* called for xi_12: TP_estimator(D1D2,D1R,RR,N1,N2,NR,NR,estimator)       *)

AngularEstimatorCalls ==
    [fn : {"ang_TP_estimator"},
     DD : {<<0, MaxCount>>, <<1, 1>>, <<MaxCount, 0>>},
     DR : [1..2 -> {0, 1, MaxCount}],
     RR : [1..2 -> {0, 1, MaxCount}],
     N1 : 1..MaxCount,
     N2 : 1..MaxCount,
     NR : 1..MaxCount,
     estimator : list_estimators]

InitAngEst ==
    /\ in \in AngularEstimatorCalls
    /\ pc = "entry"
    /\ pool = "none"
    /\ loc = <<>>
    /\ counts = NoCounts
    /\ calls = <<>>
    /\ tasks = 0
    /\ result = NoResult
    /\ err = NoErr

Call_ang_TP_estimator ==
    /\ in.fn = "ang_TP_estimator" /\ pc = "entry"
    /\ LET DD == Some(ToNum(in.DD))
           DR == Some(ToNum(in.DR))
           RR == Some(ToNum(in.RR))
           r  == ang_TP_estimator_raises(DD, DR, RR, in.N1, in.N2, in.NR, in.NR, in.estimator)
       IN  IF r # ""
           THEN Raise(r, "TP_estimator") /\ UNCHANGED result
           ELSE /\ result' = [kind |-> "xi", err2 |-> <<>>,
                              xi |-> ang_TP_estimator(DD.v, DR.v, RR.v, in.N1, in.N2, in.NR,
                                                      in.NR, in.estimator)]
                /\ pc' = "returned" /\ UNCHANGED err
    /\ UNCHANGED <<in, pool, loc, counts, calls, tasks>>

SpecAngEst ==
    InitAngEst /\ [][Call_ang_TP_estimator]_vars

----------------------------------------------------------------------------
(* Properties *)

\* the two point sets of the pair count of a name, as the call holds them when
\* it counts
Operands(name) ==
    CASE name = "D1D1" -> <<loc.sample1, loc.sample1>>
      [] name = "D1D2" -> <<loc.sample1, loc.sample2>>
      [] name = "D2D2" -> <<loc.sample2, loc.sample2>>
      [] name = "D1R"  -> <<loc.sample1, loc.randoms>>
      [] name = "D2R"  -> <<loc.sample2, loc.randoms>>
      [] name = "RR"   -> <<loc.randoms, loc.randoms>>

Names(cs) ==
    {cs[i].name : i \in 1..Len(cs)}

\* C1: chunk-sum invariance.  In two_point_correlation_function with two or more
\* workers, the cumulative counts of every pair count made (D1D1, D1D2, D2D2,
\* D1R, D2R, RR), obtained by splitting the first set, counting each chunk
\* against the whole other set and summing, are those of the single serial
\* count on the unsplit set.
C1_ChunkSumInvariance ==
    (in.fn = "tpcf" /\ in.N_threads >= 2) =>
        \A i \in 1..Len(calls) :
            calls[i].cum = serial_cumulative(Operands(calls[i].name)[1].p,
                                             Operands(calls[i].name)[2].p,
                                             loc.rbins, loc.period)

\* C1 witness: a cross-correlation with randoms on more workers than sample1 has
\* points has made all six counts, with pairs in the last bin
C1_Witness ==
    /\ in.fn = "tpcf" /\ pc = "returned"
    /\ in.N_threads > len(loc.sample1) /\ len(loc.sample1) >= 2
    /\ Names(calls) = {"D1D1", "D1D2", "D2D2", "D1R", "D2R", "RR"}
    /\ \A i \in 1..Len(calls) : calls[i].cum[Len(calls[i].cum)] > 0
    /\ \A i \in 1..Len(calls) : calls[i].tasks = in.N_threads

\* the analytic auto-correlation case, once random_counts has run
AnalyticAuto ==
    /\ in.fn \in {"tpcf", "angular"}
    /\ loc.PBCs /\ ~loc.hasR
    /\ np_all_eq(loc.sample1, loc.sample2)
    /\ pc \in {"estimate", "returned"}

ClosedForm(estimator, DD, DR, RR, f) ==
    CASE estimator = "Natural" ->
           Sub(Div(DD, Mul(Mul(f, f), RR)), One)
      [] estimator = "Davis-Peebles" ->
           Sub(Div(DD, Mul(f, DR)), One)
      [] estimator = "Hewett" ->
           Sub(Div(DD, Mul(Mul(f, f), RR)), Div(DR, Mul(f, RR)))
      [] estimator = "Hamilton" ->
           Sub(Div(Mul(DD, RR), Mul(DR, DR)), One)
      [] estimator = "Landy-Szalay" ->
           Add(Sub(Div(DD, Mul(Mul(f, f), RR)), Div(Mul(Two, DR), Mul(f, RR))), One)

\* the denominators of the closed form are not zero
NonZeroDenominators(estimator, DR, RR, f) ==
    CASE estimator = "Natural"       -> ~IsZero(f) /\ RR # 0
      [] estimator = "Davis-Peebles" -> ~IsZero(f) /\ DR # 0
      [] estimator = "Hewett"        -> ~IsZero(f) /\ RR # 0
      [] estimator = "Hamilton"      -> DR # 0
      [] estimator = "Landy-Szalay"  -> ~IsZero(f) /\ RR # 0

\* C3: for counts with non-zero denominators and every factor f, TP_estimator of
\* two_point_correlation_function and of the jackknife function returns, bin by
\* bin, Natural = DD/(f^2 RR) - 1, Davis-Peebles = DD/(f DR) - 1,
\* Hewett = DD/(f^2 RR) - DR/(f RR), Hamilton = DD RR/DR^2 - 1,
\* Landy-Szalay = DD/(f^2 RR) - 2 DR/(f RR) + 1, each bin from its own counts.
C3_EstimatorFormulas ==
    (in.fn = "TP_estimator" /\ pc # "entry") =>
        \A i \in 1..2 :
            NonZeroDenominators(in.estimator, in.DR[i], in.RR[i], in.factor) =>
                /\ pc = "returned"
                /\ Len(result.xi) = 2
                /\ IsFinite(result.xi[i])
                /\ result.xi[i] = ClosedForm(in.estimator, Num(in.DD[i]), Num(in.DR[i]),
                                             Num(in.RR[i]), in.factor)

\* C3 witness: Landy-Szalay of the jackknife function has returned for an
\* irrational factor and different counts in the two bins
C3_Witness ==
    /\ in.fn = "TP_estimator" /\ pc = "returned"
    /\ in.of = "jackknife" /\ in.estimator = "Landy-Szalay"
    /\ in.factor[2] # 0
    /\ in.DD[1] # in.DD[2] /\ in.DR[1] # in.DR[2]
    /\ \A i \in 1..2 : in.RR[i] # 0 /\ in.DR[i] # 0
    /\ result.xi[1] # result.xi[2]

\* C4: two_point_correlation_function called with sample2=None treats sample2 as
\* sample1 throughout the call and returns one auto-correlation array, never a
\* triple, whatever the size of sample1.  Violated: above max_sample_size only
\* sample1 is down sampled (lines 146-150) and the function returns a triple.
C4_NoneSample2IsAuto ==
    (in.fn = "tpcf" /\ in.sample2.none /\ pc # "entry" /\ pc # "process") =>
        /\ loc.sample2 = loc.sample1
        /\ (pc = "returned" => result.kind = "single")

\* no periodicity and no random catalog
NoBasis ==
    in.fn = "tpcf" /\ in.period.kind = "none" /\ in.randoms.none

\* C5: two_point_correlation_function called with period=None and randoms=None
\* ends in a configuration error (a ValueError) and returns no correlation
\* values, whatever the samples, bins, estimator and threads: it never gets past
\* its checks, makes no pair count, and the call does end, raising.
C5_NoBasisFails ==
    /\ [](NoBasis =>
            /\ pc \in {"entry", "process", "downsample", "check", "raised"}
            /\ result = NoResult
            /\ calls = <<>>
            /\ (pc = "raised" => err.kind = "ValueError"))
    /\ (NoBasis ~> (pc = "raised" /\ err.kind = "ValueError"))

\* C5 witness: such a call has raised for the missing randoms
C5_Witness ==
    /\ NoBasis /\ pc = "raised"
    /\ err.msg = "If no PBCs are specified, randoms must be provided."
    /\ in.estimator \in list_estimators

\* C6: for an estimator name outside the five supported ones, every entry point
\* fails with a ValueError, like the other configuration errors, before any pair
\* count.  Violated: building the message calls .value on a str (lines 165-167,
\* 468-470, 776-778, 1167-1169), so the call ends in an AttributeError.
C6_UnsupportedEstimatorValueError ==
    (in.fn \in {"tpcf", "jackknife", "angular", "projected"}
        /\ in.estimator \notin list_estimators) =>
        /\ calls = <<>>
        /\ pc # "returned"
        /\ (pc = "raised" => err.kind = "ValueError")

\* the exceptions of the input checks: the ValueErrors, and the exception the
\* check of the estimator name raises
IsConfigurationError(e) ==
    \/ e.kind = "ValueError"
    \/ e.kind = "AttributeError" /\ e.msg = "'str' object has no attribute 'value'"

\* C7: in each entry point, a call that fails with a configuration error (period
\* shape, bin edge above half the box, sample dimensions, missing randoms,
\* unsupported estimator, mixed finite/infinite period, Nsub shape) has made no
\* pair count and has handed no task to the pool.
C7_ConfigurationErrorsBeforeCounting ==
    (in.fn \in {"tpcf", "jackknife", "angular", "projected"}
        /\ pc = "raised" /\ IsConfigurationError(err)) =>
        /\ calls = <<>>
        /\ tasks = 0
        /\ counts = NoCounts

\* C7 witness: a jackknife call with a pool has raised for the shape of Nsub
C7_Witness ==
    /\ in.fn = "jackknife" /\ pc = "raised" /\ in.N_threads > 1
    /\ err = Error("ValueError", "Nsub should have shape (k,) or be a single integer")
    /\ tasks = 0

\* C8: a call with N_threads > 1 has released the pool it created when it ends,
\* by returning or by raising.  Violated: no entry point closes, terminates or
\* joins the pool it creates (lines 113-114, 403-404, 734-735, 1125-1126).
C8_PoolReleasedAtEnd ==
    (in.fn \in {"tpcf", "jackknife", "angular", "projected"}
        /\ in.N_threads > 1 /\ pc \in {"returned", "raised"}) =>
        pool # "open"

\* C9: np.array_split of a set of N >= 0 points in T >= 1 chunks (T > N
\* included) gives exactly T chunks, contiguous and in the original order (their
\* concatenation is the set: nothing dropped, nothing twice), of sizes that
\* differ by at most 1.
C9_SplitPartitions ==
    (in.fn = "array_split" /\ pc = "returned") =>
        /\ Len(result.xi) = in.n
        /\ Concat(result.xi) = in.ary
        /\ \A i, j \in 1..Len(result.xi) : Len(result.xi[i]) - Len(result.xi[j]) <= 1

\* C9 witness: a split in more chunks than points, and one in chunks of two sizes
C9_Witness ==
    /\ in.fn = "array_split" /\ pc = "returned"
    /\ Len(in.ary) >= 2
    /\ \/ in.n > Len(in.ary)
       \/ in.n >= 2 /\ Len(result.xi[1]) > Len(result.xi[in.n]) /\ Len(result.xi[in.n]) > 0

\* C10: in every entry point, no data-random pair count is invoked with the
\* Natural estimator and no random-random pair count with Davis-Peebles.
\* Violated: random_counts (lines 184-236) and jrandom_counts (lines 542-584)
\* count D1R and RR whatever the estimator.
C10_UnneededCountsSkipped ==
    (in.fn \in {"tpcf", "jackknife", "angular", "projected"}) =>
        /\ (in.estimator = "Natural" => Names(calls) \cap {"D1R", "D2R"} = {})
        /\ (in.estimator = "Davis-Peebles" => "RR" \notin Names(calls))

\* "a" is made of points of "orig" at distinct indices, in any order
DistinctPointsOf(a, orig) ==
    /\ a.k = orig.k
    /\ len(a) <= len(orig)
    /\ \E inds \in ShuffledPrefixes(len(orig), len(a)) : a = Take(orig, inds)

\* the sample2 the call starts from: the argument, or sample1 when it is None
OriginalSample2 ==
    IF in.sample2.none THEN in.sample1 ELSE in.sample2.v

\* C11: after the down-sampling step of two_point_correlation_function, the data
\* sets handed to the pair counter (sample1 and sample2, auto and cross) have at
\* most max_sample_size points and are made of distinct points of the original
\* sets, and no pair count is made before that step.  Violated: in the
\* auto-correlation case only sample1 is down sampled (lines 140, 146-150); the
\* aliased sample2 keeps every point and is handed to the pair counter for D1D2
\* and D2D2.
C11_DownSampledBeforeCounting ==
    (in.fn = "tpcf") =>
        /\ (pc \in {"entry", "process", "downsample"} => calls = <<>> /\ tasks = 0)
        /\ (Names(calls) \cap {"D1D1", "D1D2", "D1R"} # {} =>
              /\ len(loc.sample1) <= in.max_sample_size
              /\ DistinctPointsOf(loc.sample1, in.sample1))
        /\ (Names(calls) \cap {"D1D2", "D2D2", "D2R"} # {} =>
              /\ len(loc.sample2) <= in.max_sample_size
              /\ DistinctPointsOf(loc.sample2, OriginalSample2))

\* the call has passed the statement that checks the bin edges against the box:
\* it runs on, has returned, or has raised something other than the two shape
\* errors raised before that statement
PastBinCheck ==
    \/ pc \in {"factors", "pair_counts", "random_counts", "estimate", "returned"}
    \/ /\ pc = "raised"
       /\ err.msg \notin {"period should have shape (k,)",
                          "Nsub should have shape (k,) or be a single integer"}

BinEdgeError ==
    Error("ValueError", "Cannot calculate for seperations larger than Lbox/2.")

\* C12: with periodicity active, two_point_correlation_function and the jackknife
\* function raise the bin-edge configuration error if and only if
\* max(rbins) > min(period)/2: a largest edge of exactly half the smallest box
\* side is accepted, and without periodicity no bin edge is rejected.
C12_BinEdgeRejectedIffAboveHalfBox ==
    (in.fn \in {"tpcf", "jackknife"} /\ PastBinCheck) =>
        ((pc = "raised" /\ err = BinEdgeError)
            <=> (/\ loc.PBCs
                 /\ \E i \in 1..Len(loc.period) :
                       loc.period[i] # Inf /\ 2 * SeqMax(loc.rbins) > loc.period[i]))

\* C12 witness: a periodic jackknife call whose largest bin edge is exactly half
\* the box side has returned
C12_Witness ==
    /\ in.fn = "jackknife" /\ pc = "returned"
    /\ loc.PBCs /\ 2 * SeqMax(loc.rbins) = period_min(loc.period)

\* a periodic call of either function with a bin edge above half the box has
\* raised the bin-edge error
C12_RejectedReached ==
    /\ in.fn = "tpcf" /\ pc = "raised" /\ err = BinEdgeError
    /\ loc.PBCs /\ 2 * SeqMax(loc.rbins) > period_min(loc.period)

\* the period argument of the call, axis by axis (one entry for a scalar)
AllFinite(v) ==
    \A i \in 1..Len(v) : v[i] # Inf

AllInfinite(v) ==
    \A i \in 1..Len(v) : v[i] = Inf

MixedPeriodError ==
    Error("ValueError", "If a non-infinte PBC specified, all PBCs must be non-infinte.")

\* C13: in two_point_correlation_function and the jackknife function, with or
\* without randoms, a period given with all axes finite or all axes infinite is
\* accepted (the check of the period never rejects it), and one with finite and
\* infinite axes is rejected with a configuration error.  Violated: the check
\* "(PBCs==True) & (max(period)==np.inf)" (lines 168-169, 471-472) also rejects a
\* period given with every axis infinite.
C13_PeriodAllFiniteOrAllInfinite ==
    (in.fn \in {"tpcf", "jackknife"} /\ in.period.kind # "none") =>
        /\ (AllFinite(in.period.v) \/ AllInfinite(in.period.v)) =>
              ~(pc = "raised" /\ err = MixedPeriodError)
        /\ ~(AllFinite(in.period.v) \/ AllInfinite(in.period.v)) =>
              /\ pc \notin {"factors", "pair_counts", "random_counts", "estimate", "returned"}
              /\ (pc = "raised" => IsConfigurationError(err))

\* a period with a finite and an infinite axis is rejected by that check
C13_MixedRejected ==
    /\ in.fn \in {"tpcf", "jackknife"} /\ in.period.kind = "vector"
    /\ ~(AllFinite(in.period.v) \/ AllInfinite(in.period.v))
    /\ pc = "raised" /\ err = MixedPeriodError

\* a call whose arguments pass the checks and give non-zero factors
WellFormedCall ==
    /\ in.period.kind # "none" \/ ~in.randoms.none
    /\ in.period.kind = "vector" => Len(in.period.v) = in.sample1.k
    /\ in.period.kind # "none" =>
          /\ AllFinite(in.period.v)
          /\ \A i \in 1..Len(in.period.v) : 2 * SeqMax(BinsOf(in)) <= in.period.v[i]
    /\ ~in.sample2.none => in.sample2.v.k = in.sample1.k
    /\ ~in.randoms.none => in.randoms.v.k = in.sample1.k /\ len(in.randoms.v) > 0
    /\ in.estimator \in list_estimators
    /\ len(in.sample1) > 0
    /\ ~in.sample2.none => len(in.sample2.v) > 0

\* C14: for bin edges of length n >= 1 (a scalar being one edge), every
\* correlation array two_point_correlation_function returns has n - 1 entries;
\* with a single edge a well-formed call raises nothing and returns empty arrays.
C14_OneEntryPerBin ==
    (in.fn = "tpcf") =>
        /\ Len(loc.rbins) >= 1
        /\ ("scalar_rbins" \in DOMAIN in => Len(loc.rbins) = 1)
        /\ (pc = "returned" =>
              \A i \in 1..Len(result.xi) : Len(result.xi[i]) = Len(loc.rbins) - 1)
        /\ (Len(loc.rbins) = 1 /\ WellFormedCall => pc # "raised")

\* C14 witness: a cross-correlation with a scalar rbins on two workers has
\* returned three empty arrays
C14_Witness ==
    /\ in.fn = "tpcf" /\ pc = "returned"
    /\ "scalar_rbins" \in DOMAIN in /\ in.N_threads = 2
    /\ result.kind = "triple" /\ result.xi = <<<<>>, <<>>, <<>>>>

\* bin edges in strictly increasing order
Increasing(edges) ==
    \A i, j \in 1..Len(edges) : i < j => edges[i] < edges[j]

NonDecreasing(a) ==
    \A i, j \in 1..Len(a) : i < j => a[i] <= a[j]

\* a count that is a non-negative whole or rational number
IsNonNegative(x) ==
    IsFinite(x) /\ x[2] = 0 /\ x[1] >= 0 /\ x[4] > 0

\* C15: in two_point_correlation_function, for increasing bin edges, the
\* cumulative counts of the pair counter (one serial count, or the sum of the
\* chunk results on any number of workers) are non-decreasing, and every per-bin
\* count obtained from them by differencing (D1D1, D1D2, D2D2, D1R, D2R, RR) is
\* >= 0.
C15_BinCountsNonNegative ==
    (in.fn = "tpcf" /\ Increasing(loc.rbins)) =>
        \A i \in 1..Len(calls) :
            /\ NonDecreasing(calls[i].cum)
            /\ ~counts[calls[i].name].none
            /\ Len(counts[calls[i].name].v) = Len(loc.rbins) - 1
            /\ \A b \in 1..Len(counts[calls[i].name].v) :
                  IsNonNegative(counts[calls[i].name].v[b])

\* C15 witness: a pooled cross-correlation with randoms has counted all six
\* kinds of pairs, with an empty bin and a non-empty bin among the D1D2 counts
C15_Witness ==
    /\ in.fn = "tpcf" /\ pc = "returned" /\ in.N_threads >= 2
    /\ Increasing(loc.rbins) /\ Len(loc.rbins) = 3
    /\ Names(calls) = {"D1D1", "D1D2", "D2D2", "D1R", "D2R", "RR"}
    /\ \E b \in 1..2 : IsZero(counts.D1D2.v[b])
    /\ \E b \in 1..2 : ~IsZero(counts.D1D2.v[b])

\* with bin edges in decreasing order a per-bin count is negative
C15_UnsortedEdgesNegative ==
    /\ in.fn = "tpcf" /\ ~Increasing(loc.rbins) /\ ~counts.RR.none
    /\ \E b \in 1..Len(counts.RR.v) : ~IsNonNegative(counts.RR.v[b])

\* (x - y)^2
SquaredDifference(x, y) ==
    Mul(Sub(x, y), Sub(x, y))

\* ((N-1)/N) * sum over the leave-one-out rows 1..N of (xi_sub - xi_full)^2 in bin
\* b, for the counts DD, DR, RR (row 1 the full sample, row L + 1 the sample
\* without subvolume L) and N the product of the per-axis Nsub
LeaveOneOutVariance(DD, DR, RR, f, b) ==
    Mul(Frac(SeqProd(loc.Nsub) - 1, SeqProd(loc.Nsub)),
        NumSum([L \in 1..SeqProd(loc.Nsub) |->
                   SquaredDifference(TP_estimator(DD[L + 1], DR[L + 1], RR[L + 1], f, in.estimator)[b],
                                     TP_estimator(DD[1], DR[1], RR[1], f, in.estimator)[b])]))

\* C16: the error the jackknife function returns is, per bin, the square root of
\* ((N-1)/N) * sum over the N leave-one-out rows of (xi_sub - xi_full)^2, with N
\* the product of the per-axis Nsub and (N-1)/N an exact quotient, not 0 for
\* N > 1.  (err2 is the square of the returned error.)
C16_JackknifeErrorFormula ==
    (in.fn = "jackknife" /\ pc = "returned") =>
        /\ loc.N_sub_vol = SeqProd(loc.Nsub)
        /\ ~IsZero(Frac(loc.N_sub_vol - 1, loc.N_sub_vol))
        /\ \A b \in 1..(Len(loc.rbins) - 1) :
              /\ result.err2[1][b]
                   = LeaveOneOutVariance(counts.D1D1.v, counts.D1R.v, counts.RR.v, loc.factor1, b)
              /\ result.kind = "triple" =>
                   /\ result.err2[2][b]
                        = LeaveOneOutVariance(counts.D1D2.v, counts.D1R.v, counts.RR.v, loc.factor3, b)
                   /\ result.err2[3][b]
                        = LeaveOneOutVariance(counts.D2D2.v, counts.D2R.v, counts.RR.v, loc.factor2, b)

\* C16 witness: a jackknife call has returned a finite, non-zero error in a bin
C16_Witness ==
    /\ in.fn = "jackknife" /\ pc = "returned"
    /\ loc.N_sub_vol = 2
    /\ \E b \in 1..Len(result.err2[1]) :
          IsFinite(result.err2[1][b]) /\ ~IsZero(result.err2[1][b])

\* C17: the jackknife error does not depend on the order in which the
\* subvolumes are labelled: for every order of the leave-one-out rows the error
\* in a bin is the one obtained with the rows in the order of "base", and the
\* full-sample value is that of the full row.
C17_ErrorInvariantUnderRelabelling ==
    (in.fn = "jackknife_errors" /\ pc = "returned") =>
        LET xi_full == TP_estimator(<<Num(in.full[1])>>, <<Num(in.full[2])>>,
                                    <<Num(in.full[3])>>, in.factor, in.estimator)
            xi_base == TP_estimator_rows(Column(in.base, 1), Column(in.base, 2),
                                         Column(in.base, 3), in.factor, in.estimator)
        IN  /\ result.xi[1] = xi_full
            /\ result.err2[1][1]
                 = Mul(Frac(MaxRows - 1, MaxRows),
                       NumSum([L \in 1..MaxRows |->
                                  SquaredDifference(xi_base[L][1], xi_full[1])]))

\* C17 witness: rows that all differ, taken in an order that moves every row,
\* have given a finite, non-zero error
C17_Witness ==
    /\ in.fn = "jackknife_errors" /\ pc = "returned"
    /\ \A j \in 1..MaxRows : in.order[j] # j
    /\ \A i, j \in 1..MaxRows : i # j => in.base[i] # in.base[j]
    /\ IsFinite(result.err2[1][1]) /\ ~IsZero(result.err2[1][1])

\* the labels of the points have been computed
Labelled ==
    in.fn = "jackknife" /\ pc \in {"pair_counts", "random_counts", "estimate", "returned"}

\* every point of the array has 0 <= x <= Lbox on every axis
WithinBox(a) ==
    \A i \in 1..len(a) : \A d \in 1..a.k : 0 <= a.p[i][d] /\ a.p[i][d] <= loc.Lbox[d]

\* every point of the array has 0 <= x < Lbox on every axis
InsideBox(a) ==
    \A i \in 1..len(a) : \A d \in 1..a.k : 0 <= a.p[i][d] /\ a.p[i][d] < loc.Lbox[d]

\* the labels are in 1..N, and every count made has N + 1 rows
LabelsInRange ==
    /\ loc.N_sub_vol = SeqProd(loc.Nsub)
    /\ \A j \in {loc.j_index_1, loc.j_index_2, loc.j_index_random} :
          \A i \in 1..Len(j) : j[i] \in 1..loc.N_sub_vol
    /\ \A c \in 1..Len(calls) : Len(calls[c].cum) = loc.N_sub_vol + 1

\* C18: for points of sample1, sample2 and randoms within the box
\* (0 <= x_i <= Lbox_i), get_subvolume_labels gives every point a label in
\* 1..N_total, N_total the product of Nsub: never 0, never above the row count
\* passed to the pair counter, so that every point is left out of exactly one of
\* the N_total leave-one-out rows.  Violated: a point with x_i = Lbox_i gets
\* floor(x_i/dL_i) = Nsub_i on that axis (lines 487-494) and a label above
\* N_total, or the label of another subvolume.
C18_LabelsInRange ==
    (Labelled /\ WithinBox(loc.sample1) /\ WithinBox(loc.sample2) /\ WithinBox(loc.randoms)) =>
        LabelsInRange

\* for points with 0 <= x_i < Lbox_i the labels are in range
LabelsInRangeInsideBox ==
    (Labelled /\ InsideBox(loc.sample1) /\ InsideBox(loc.sample2) /\ InsideBox(loc.randoms)) =>
        LabelsInRange

\* the analytic cross-correlation case, once random_counts has run
AnalyticCross ==
    /\ in.fn = "tpcf"
    /\ loc.PBCs /\ ~loc.hasR
    /\ ~np_all_eq(loc.sample1, loc.sample2)
    /\ pc \in {"estimate", "returned"}

\* the volume of the shell between the edges of bin b
ShellVolume(b) ==
    nball_volume(loc.rbins[b + 1], loc.k) - nball_volume(loc.rbins[b], loc.k)

\* the volume of the periodic box
BoxVolume ==
    SeqProd(loc.period)

\* C19 as stated: in analytic mode with two distinct samples the per-bin RR of the
\* cross-correlation is shell_volume * N1*N2/V^2.  Violated: the code divides by
\* the volume once (lines 258-260).
C19_CrossRRProductDensity ==
    AnalyticCross =>
        \A b \in 1..(Len(loc.rbins) - 1) :
            counts.RR.v[b] = Mul(Num(ShellVolume(b)),
                                 Frac(len(loc.sample1) * len(loc.sample2), BoxVolume * BoxVolume))

\* C19 amended: in analytic mode with two distinct samples of N1 and N2 points in
\* a periodic box of volume V, the per-bin RR is shell_volume * N1*N2/V, and it
\* is the RR the returned cross-correlation xi_12 is computed with.
C19_CrossRRPairsPerVolume ==
    AnalyticCross =>
        /\ ~counts.RR.none /\ Len(counts.RR.v) = Len(loc.rbins) - 1
        /\ \A b \in 1..(Len(loc.rbins) - 1) :
              counts.RR.v[b] = Mul(Num(ShellVolume(b)),
                                   Frac(len(loc.sample1) * len(loc.sample2), BoxVolume))
        /\ pc = "returned" =>
              result.xi[2] = TP_estimator(counts.D1D2.v, counts.D1R.v, counts.RR.v, One,
                                          in.estimator)

\* C19 witness: a periodic cross-correlation of two points with two has returned,
\* with an analytic RR that is not zero
C19_Witness ==
    /\ AnalyticCross /\ pc = "returned"
    /\ len(loc.sample1) = 2 /\ len(loc.sample2) = 2
    /\ BoxVolume > 1
    /\ \E b \in 1..Len(counts.RR.v) : ~IsZero(counts.RR.v[b])

\* how many of the pair counts made are counts of "name"
TimesCounted(name) ==
    Cardinality({i \in 1..Len(calls) : calls[i].name = name})

\* the rows of the cumulative counts of the one count of "name"
CumulativeOf(name) ==
    calls[CHOOSE i \in 1..Len(calls) : calls[i].name = name].cum

\* C20: in one call of the jackknife function RR is counted exactly once, for an
\* auto- as for a cross-correlation, and its rows (full and leave-one-out) are
\* the RR of xi_11, xi_12 and xi_22; in the auto-correlation case D1R is counted
\* once too and reused as D2R.
C20_RandomRandomCountedOnce ==
    (in.fn = "jackknife" /\ pc \in {"estimate", "returned"}) =>
        /\ TimesCounted("RR") = 1
        /\ TimesCounted("D1R") = 1
        /\ counts.RR.v = [j \in 1..Len(CumulativeOf("RR")) |-> ToNum(np_diff(CumulativeOf("RR")[j]))]
        /\ IF np_all_eq(loc.sample1, loc.sample2)
           THEN TimesCounted("D2R") = 0 /\ counts.D2R = counts.D1R
           ELSE TimesCounted("D2R") = 1
        /\ pc = "returned" =>
              /\ result.xi[1] = TP_estimator(counts.D1D1.v[1], counts.D1R.v[1], counts.RR.v[1],
                                             loc.factor1, in.estimator)
              /\ result.kind = "triple" =>
                    /\ result.xi[2] = TP_estimator(counts.D1D2.v[1], counts.D1R.v[1],
                                                   counts.RR.v[1], loc.factor3, in.estimator)
                    /\ result.xi[3] = TP_estimator(counts.D2D2.v[1], counts.D2R.v[1],
                                                   counts.RR.v[1], loc.factor2, in.estimator)

\* C20 witness: a pooled cross-correlation has returned after one count of RR, one
\* of D1R and one of D2R, with a finite xi_12 in a bin
C20_Witness ==
    /\ in.fn = "jackknife" /\ pc = "returned" /\ result.kind = "triple"
    /\ in.N_threads = 2 /\ ~in.comm
    /\ TimesCounted("RR") = 1 /\ TimesCounted("D2R") = 1
    /\ \E b \in 1..Len(result.xi[2]) : IsFinite(result.xi[2][b])

\* the jackknife call has passed its down-sampling step
JackknifeDownSampled ==
    in.fn = "jackknife"
        /\ pc \in {"check", "factors", "pair_counts", "random_counts", "estimate", "returned"}

\* "a" is what the step "if len(orig)>max_sample_size: ..." on its own leaves of
\* "orig": max_sample_size distinct points of it, or all of it
DownSampledFrom(a, orig) ==
    IF len(orig) > in.max_sample_size
    THEN len(a) = in.max_sample_size /\ DistinctPointsOf(a, orig)
    ELSE a = orig

\* C21: in the jackknife function, when len(randoms) > max_sample_size the
\* down-sampling step replaces randoms by max_sample_size of its points and does
\* not touch sample1 and sample2 (which are what their own steps made of them);
\* when len(randoms) <= max_sample_size randoms is unchanged as well.  Violated:
\* the subset of randoms is assigned to sample1 (line 450, "sample1 =
\* randoms[inds]"): randoms keeps every point and sample1 becomes points of the
\* random catalog.
C21_RandomsDownSampledAlone ==
    JackknifeDownSampled =>
        /\ DownSampledFrom(loc.randoms, in.randoms)
        /\ DownSampledFrom(loc.sample1, in.sample1)
        /\ IF np_all_eq(in.sample1, OriginalSample2)
           THEN loc.sample2 = OriginalSample2
           ELSE DownSampledFrom(loc.sample2, OriginalSample2)

\* the factor of the spatial functions for the counts of N1 and N2 points against
\* NR randoms: (len(sample1)**0.5)*(len(sample2)**0.5)/len(randoms)
SpatialFactor(N1, N2, NR) ==
    Div(Mul(Sqrt(N1), Sqrt(N2)), Num(NR))

\* the value of the spatial TP_estimator for the counts and sizes of the call
SpatialValue ==
    TP_estimator(ToNum(in.DD), ToNum(in.DR), ToNum(in.RR),
                 SpatialFactor(in.N1, in.N2, in.NR), in.estimator)

\* C22: for all counts and all sizes N1, N2, NR, the angular TP_estimator called
\* with (ND1, ND2, NR1, NR2) = (N1, N2, NR, NR) returns the value of the spatial
\* TP_estimator with the factor sqrt(N1*N2)/NR, for each of the five estimators.
\* Violated for N1 # N2: the angular Davis-Peebles normalises DD/DR by N2/NR and
\* the angular Hewett and Landy-Szalay normalise DR/RR by N1/NR (lines 954-965),
\* the spatial ones by sqrt(N1*N2)/NR (lines 305-311, 319).
C22_AngularEqualsSpatial ==
    (in.fn = "ang_TP_estimator" /\ pc = "returned") =>
        result.xi = SpatialValue

\* the two estimators agree for equal sample sizes, and for Natural and Hamilton
\* whatever the sizes
EstimatorsAgreeForEqualSizes ==
    (in.fn = "ang_TP_estimator" /\ pc = "returned"
        /\ (in.N1 = in.N2 \/ in.estimator \in {"Natural", "Hamilton"})) =>
        result.xi = SpatialValue

\* the counts the serial path (N_threads = 1, no comm) makes for the samples,
\* bins and flags of the call in progress
SerialPairCounts ==
    ang_pair_counts(loc.sample1, loc.sample2, loc.rbins, 1,
                    in.do_auto, in.do_cross, loc.do_DD, FALSE)

SerialRandomCounts ==
    ang_random_counts(loc.sample1, loc.sample2, loc.randoms, loc.rbins, loc.PBCs,
                      1, loc.do_RR, loc.do_DR, FALSE)

\* C23: in the angular function called with a random catalog and a comm object,
\* the pair counts made are those the serial path makes for the same samples,
\* bins and flags: each of D1D1, D1D2, D2D2, RR, D1R, D2R is counted with comm
\* exactly when it is counted serially, and the estimator is handed the same
\* counts.  Violated: the comm branch of random_counts skips D2R
\* ("if True==False:", lines 806-815), the serial branch counts it when do_DR is
\* set and the samples differ (lines 826-830).
C23_CommCountsAsSerial ==
    (in.fn = "angular" /\ in.comm /\ ~in.randoms.none /\ pc \in {"estimate", "returned"}) =>
        /\ Names(calls) = Names(SerialPairCounts.calls) \cup Names(SerialRandomCounts.calls)
        /\ counts.D1D1 = SerialPairCounts.D1D1
        /\ counts.D1D2 = SerialPairCounts.D1D2
        /\ counts.D2D2 = SerialPairCounts.D2D2
        /\ counts.RR = SerialRandomCounts.RR
        /\ counts.D1R = SerialRandomCounts.D1R
        /\ counts.D2R = SerialRandomCounts.D2R

\* the pair counts among the data (D1D1, D1D2, D2D2) and RR and D1R are made with
\* comm exactly when they are made serially
CommDataCountsAsSerial ==
    (in.fn = "angular" /\ in.comm /\ ~in.randoms.none /\ pc \in {"estimate", "returned"}) =>
        /\ Names(calls) \ {"D2R"}
              = (Names(SerialPairCounts.calls) \cup Names(SerialRandomCounts.calls)) \ {"D2R"}
        /\ counts.D1D1 = SerialPairCounts.D1D1
        /\ counts.D1D2 = SerialPairCounts.D1D2
        /\ counts.D2D2 = SerialPairCounts.D2D2
        /\ counts.RR = SerialRandomCounts.RR
        /\ counts.D1R = SerialRandomCounts.D1R

----------------------------------------------------------------------------
(* The pooled path of pair_counts on its own, task by task: each            *)
(* pool.map(_npairs_wrapper, args) hands one task per chunk to the workers, *)
(* the tasks finish in any order, and the statement goes on to np.sum once  *)
(* the map has its list of results                                          *)

\* calls of the pooled path: an auto- or a cross-correlation with 2 or 3 workers
PoolMapCalls ==
    [fn : {"pooled_pair_counts"},
     sample1 : {Arr(1, <<<<0>>, <<1>>, <<3>>>>), Arr(1, <<<<0>>, <<2>>>>)},
     sample2 : {Arr(1, <<<<0>>, <<1>>, <<3>>>>), Arr(1, <<<<1>>, <<2>>, <<3>>, <<3>>>>)},
     rbins : {<<1, 2>>, <<0, 1, 3>>},
     period : {<<Inf>>, <<BoxSide>>},
     N_threads : 2..MaxThreads]

InitPool ==
    /\ in \in PoolMapCalls
    /\ pc = "submit"
    /\ pool = "open"
    /\ loc = [name |-> "D1D1", args |-> <<>>, st |-> <<>>, out |-> <<>>, order |-> <<>>]
    /\ counts = NoCounts
    /\ calls = <<>>
    /\ tasks = 0
    /\ result = NoResult
    /\ err = NoErr

\* "args = [[chunk,other,rbins,period] for chunk in np.array_split(first,N_threads)]"
\* and the entry into pool.map: every task is handed to the pool
PoolMap_Submit ==
    /\ in.fn = "pooled_pair_counts" /\ pc = "submit"
    /\ LET first  == IF loc.name = "D2D2" THEN in.sample2.p ELSE in.sample1.p
           other  == IF loc.name = "D1D1" THEN in.sample1.p ELSE in.sample2.p
           chunks == array_split(first, in.N_threads)
       IN  loc' = [loc EXCEPT
                     !.args  = [j \in 1..in.N_threads |-> <<chunks[j], other, in.rbins, in.period>>],
                     !.st    = [j \in 1..in.N_threads |-> "submitted"],
                     !.out   = [j \in 1..in.N_threads |-> <<>>],
                     !.order = <<>>]
    /\ pc' = "map"
    /\ UNCHANGED <<in, pool, counts, calls, tasks, result, err>>

\* a worker runs task j, _npairs_wrapper(args[j]), to its end: the task reads its
\* own tuple only
Worker_Complete(j) ==
    /\ in.fn = "pooled_pair_counts" /\ pc = "map"
    /\ j \in DOMAIN loc.st /\ loc.st[j] = "submitted"
    /\ loc' = [loc EXCEPT !.st[j] = "done",
                          !.out[j] = _npairs_wrapper(loc.args[j]),
                          !.order = Append(loc.order, j)]
    /\ tasks' = tasks + 1
    /\ UNCHANGED <<in, pc, pool, counts, calls, result, err>>

\* a map that returns as soon as one task has finished
map_complete_any(st) ==
    \E j \in DOMAIN st : st[j] = "done"

\* pool.map returns when every task has finished
map_complete(st) ==
    \A j \in DOMAIN st : st[j] = "done"

\* pool.map returns the results in the order of args; "np.sum(...,axis=0)",
\* "np.diff(...)", and the statement that follows: the next count, or the return
\* (after D1D1 when the samples are equal, after D2D2 otherwise)
PoolMap_Return ==
    /\ in.fn = "pooled_pair_counts" /\ pc = "map"
    /\ map_complete(loc.st)
    /\ LET cum  == np_sum_axis0(SelectSeq(loc.out, LAMBDA o : o # <<>>))
           call == [name |-> loc.name, cum |-> cum, tasks |-> in.N_threads]
           same == np_all_eq(in.sample1, in.sample2)
       IN  /\ calls' = Append(calls, call)
           /\ counts' = IF loc.name = "D1D1" /\ same
                         THEN [counts EXCEPT !.D1D1 = diffed(call), !.D1D2 = diffed(call),
                                             !.D2D2 = diffed(call)]
                         ELSE [counts EXCEPT ![loc.name] = diffed(call)]
           /\ pc' = IF (loc.name = "D1D1" /\ same) \/ loc.name = "D2D2"
                     THEN "returned" ELSE "submit"
           /\ loc' = [loc EXCEPT !.name = IF loc.name = "D1D1" /\ ~same THEN "D1D2"
                                          ELSE IF loc.name = "D1D2" THEN "D2D2"
                                          ELSE loc.name]
    /\ UNCHANGED <<in, pool, tasks, result, err>>

SpecPool ==
    InitPool /\ [][PoolMap_Submit
                    \/ (\E j \in 1..MaxThreads : Worker_Complete(j))
                    \/ PoolMap_Return]_vars

\* the cumulative counts of the count "name" of the call, from the arguments alone
PooledCumulative(name) ==
    chunked_cumulative(IF name = "D2D2" THEN in.sample2.p ELSE in.sample1.p,
                       IF name = "D1D1" THEN in.sample1.p ELSE in.sample2.p,
                       in.rbins, in.period, in.N_threads)

\* every task handed to the pool and not yet run can run now, whatever the
\* state of the other tasks
NoTaskWaits ==
    (in.fn = "pooled_pair_counts" /\ pc = "map") =>
        \A j \in DOMAIN loc.st : loc.st[j] = "submitted" => ENABLED Worker_Complete(j)

\* C24: in the pooled path of pair_counts, with T = N_threads tasks handed to
\* the pool by one pool.map, the reduction (np.sum over the results) is made only
\* once all T tasks have completed; no task waits on another task; and the
\* reduced cumulative counts are the same whatever the order in which the tasks
\* ran and completed: those of the arguments of the call.
C24_ReductionAfterAllTasks ==
    /\ [](NoTaskWaits)
    /\ [](in.fn = "pooled_pair_counts" =>
            \A i \in 1..Len(calls) : calls[i].cum = PooledCumulative(calls[i].name))
    /\ [][calls' # calls =>
            /\ Len(loc.order) = in.N_threads
            /\ \A j \in 1..in.N_threads : loc.st[j] = "done"]_vars

\* a cross-correlation has returned, the three tasks of its last map having
\* completed last task first
C24_Witness ==
    /\ in.fn = "pooled_pair_counts" /\ pc = "returned"
    /\ Len(calls) = 3 /\ in.N_threads = 3
    /\ loc.order = <<3, 1, 2>>
    /\ \A i \in 1..3 : calls[i].cum = PooledCumulative(calls[i].name)

----------------------------------------------------------------------------
(* The conversion of angular to projected pair counts on its own: the loop  *)
(* over the points of sample1 and the angular bins at the end of the        *)
(* projected function.  A projected separation X/(1+z)*radians(theta) is    *)
(* kept as the exact fraction <<X*radians(theta), 1+z>>.                    *)

\* a search that returns the insertion index to the right of equal entries
np_searchsorted_right(a, v) ==
    LET n == Len(a)
        f[lo \in 0..n, hi \in 0..n] ==
            IF lo >= hi THEN lo
            ELSE LET mid == (lo + hi) \div 2
                 IN  IF a[mid + 1] * v[2] <= v[1] THEN f[mid + 1, hi] ELSE f[lo, mid]
    IN  f[0, n]

\* np.searchsorted(a, v) for one value v: binary search of the sorted array a for
\* the lowest index (from 0) at which v can be inserted, left of equal entries
np_searchsorted(a, v) ==
    LET n == Len(a)
        f[lo \in 0..n, hi \in 0..n] ==
            IF lo >= hi THEN lo
            ELSE LET mid == (lo + hi) \div 2
                 IN  IF a[mid + 1] * v[2] < v[1] THEN f[mid + 1, hi] ELSE f[lo, mid]
    IN  f[0, n]

\* "proj = np.zeros(len(r_bins))", the loop "r_proj = X[j]/(1.0+z[j])*np.radians(theta_bins);
\* k_ind = np.searchsorted(r_bins,r_proj)-1; proj[k_ind[k]] += D[j,k]" over the
\* points j and the angular bins k, and "proj = proj[:-1]".  An index of -1
\* addresses the last slot.
proj_rebin(r_bins, X, z, radians_theta, D) ==
    LET n == Len(r_bins)
        r_proj(j, k) == <<X[j] * radians_theta[k], 1 + z[j]>>
        k_ind(j, k) == np_searchsorted(r_bins, r_proj(j, k)) - 1
        slot(j, k) == IF k_ind(j, k) < 0 THEN n + k_ind(j, k) ELSE k_ind(j, k)
        cells == (1..Len(X)) \X (1..(Len(radians_theta) - 1))
        column(s) == [j \in 1..Len(X) |->
                         SeqSum([k \in 1..(Len(radians_theta) - 1) |->
                                    IF slot(j, k) = s THEN D[j][k] ELSE 0])]
        proj == [s \in 1..n |-> SeqSum(column(s - 1))]
    IN  SubSeq(proj, 1, n - 1)

\* two points of sample1 and two angular bins: the edges of the projected bins,
\* the comoving distances and redshifts of the points, the angular edges in
\* radians, and the counts of each point in each angular bin
RebinCalls ==
    [fn : {"proj_rebin"},
     r_bins : {<<1, 2>>, <<1, 2, 4>>, <<2, 3, 6>>},
     X : [1..2 -> {1, 3, 6}],
     z : [1..2 -> {0, 1}],
     radians_theta : {<<0, 1, 2>>, <<1, 2, 3>>},
     D1D2 : [1..2 -> [1..2 -> {0, 1}]],
     D1R : {<<<<1, 2>>, <<4, 8>>>>, <<<<1, 1>>, <<1, 1>>>>}]

InitRebin ==
    /\ in \in RebinCalls
    /\ pc = "entry"
    /\ pool = "none"
    /\ loc = <<>>
    /\ counts = NoCounts
    /\ calls = <<>>
    /\ tasks = 0
    /\ result = NoResult
    /\ err = NoErr

\* the conversion of D1D2 and of D1R
Call_proj_rebin ==
    /\ in.fn = "proj_rebin" /\ pc = "entry"
    /\ result' = [kind |-> "proj",
                  xi |-> <<proj_rebin(in.r_bins, in.X, in.z, in.radians_theta, in.D1D2),
                           proj_rebin(in.r_bins, in.X, in.z, in.radians_theta, in.D1R)>>,
                  err2 |-> <<>>]
    /\ pc' = "returned"
    /\ UNCHANGED <<in, pool, loc, counts, calls, tasks, err>>

SpecRebin ==
    InitRebin /\ [][Call_proj_rebin]_vars

\* the projected separation of point j at the angular edge k lies in the
\* projected bin b: r_bins[b] < X_j/(1+z_j)*theta_k <= r_bins[b+1]
InProjectedBin(j, k, b) ==
    /\ in.r_bins[b] * (1 + in.z[j]) < in.X[j] * in.radians_theta[k]
    /\ in.X[j] * in.radians_theta[k] <= in.r_bins[b + 1] * (1 + in.z[j])

\* the sum of the counts D[j][k] of the cells (j, k) of the set
SumOver(D, cells) ==
    SeqSum([j \in 1..Len(D) |->
               SeqSum([k \in 1..Len(D[j]) |-> IF <<j, k>> \in cells THEN D[j][k] ELSE 0])])

\* the cells (point, angular bin) whose separation lies in the projected bin b
CellsOfBin(b) ==
    {jk \in (1..Len(in.X)) \X (1..(Len(in.radians_theta) - 1)) : InProjectedBin(jk[1], jk[2], b)}

\* C25: in the conversion of the projected function every count D1D2[j,k] (and
\* D1R[j,k]) is added to exactly one slot, the one a binary search of
\* X_j/(1+z_j)*theta_k in r_bins finds: the returned vectors have len(r_bins)-1
\* entries, entry b is the sum of the counts whose separation lies in
\* (r_bins[b], r_bins[b+1]], and a count whose separation is at or below the
\* first edge or above the last edge is in no returned entry.
C25_RebinnedOnce ==
    (in.fn = "proj_rebin" /\ pc = "returned") =>
        \A i \in 1..2 :
            LET D == IF i = 1 THEN in.D1D2 ELSE in.D1R
            IN  /\ Len(result.xi[i]) = Len(in.r_bins) - 1
                /\ \A b \in 1..(Len(in.r_bins) - 1) :
                       result.xi[i][b] = SumOver(D, CellsOfBin(b))
                /\ SeqSum(result.xi[i])
                     = SumOver(D, UNION {CellsOfBin(b) : b \in 1..(Len(in.r_bins) - 1)})

\* a conversion into two projected bins with a count on an inner edge, one at
\* the first edge and one above the last edge, the last two returned in no bin
C25_Witness ==
    /\ in.fn = "proj_rebin" /\ pc = "returned"
    /\ in.r_bins = <<1, 2, 4>> /\ in.radians_theta = <<1, 2, 3>>
    /\ in.X = <<1, 6>> /\ in.z = <<0, 0>>
    /\ in.D1D2 = <<<<1, 1>>, <<1, 1>>>>
    /\ result.xi[1] = <<1, 0>>

\* the estimator divides by DR (Davis-Peebles, Hamilton) or by RR (the others)
DividesByDR(estimator) ==
    estimator \in {"Davis-Peebles", "Hamilton"}

\* the count the estimator of the call divides by is zero in bin i
ZeroDenominator(i) ==
    IF DividesByDR(in.estimator) THEN in.DR[i] = 0 ELSE in.RR[i] = 0

\* the estimate of the call for its counts with the denominator of bin i set to n
EstimateWithDenominator(i, n) ==
    LET DR == ToNum(IF DividesByDR(in.estimator) THEN [in.DR EXCEPT ![i] = n] ELSE in.DR)
        RR == ToNum(IF DividesByDR(in.estimator) THEN in.RR ELSE [in.RR EXCEPT ![i] = n])
    IN  IF in.of = "jackknife"
        THEN TP_estimator_rows(<<ToNum(in.DD)>>, <<DR>>, <<RR>>, in.factor, in.estimator)[1]
        ELSE TP_estimator(ToNum(in.DD), DR, RR, in.factor, in.estimator)

EstimatorReadNone ==
    pc = "raised" /\ err.kind = "TypeError" /\ err.msg = "TP_estimator"

\* C27: in the angular and in the projected function, for each of the five
\* estimators and each path (serial, pool, comm), every count the formula of the
\* estimator reads is marked as needed by TP_estimator_requirements and has been
\* produced by the counting stage: no formula is evaluated on a count that is
\* None.  Violated: in the comm path of the angular function D2R is never
\* counted (lines 806-815) and xi_22 of an estimator that reads DR is evaluated
\* on None (lines 1040, 1047); with do_auto=False D1D1 is None and is read by
\* xi_11 of a call without sample2 (lines 1034-1036); the projected function
\* passes None for RR to every estimator (line 1484).
C27_EstimatorsReadProducedCounts ==
    (in.fn \in {"angular", "projected"}) => ~EstimatorReadNone

\* the angular function alone
AngularEstimatorsReadProducedCounts ==
    (in.fn = "angular") => ~EstimatorReadNone

\* the projected function alone
ProjectedEstimatorsReadProducedCounts ==
    (in.fn = "projected") => ~EstimatorReadNone

\* what the angular function returns for the samples and flags of the call
ExpectedResultKind ==
    IF in.sample2.none THEN "single"
    ELSE IF in.do_auto /\ in.do_cross THEN "triple"
    ELSE IF in.do_cross THEN "cross"
    ELSE IF in.do_auto THEN "autos"
    ELSE "None"

\* C28: for every combination of do_auto and do_cross the angular function
\* returns a correlation result: (xi_11, xi_12, xi_22) for distinct samples with
\* both flags set, xi_12 with do_cross alone, (xi_11, xi_22) with do_auto alone,
\* xi_11 when sample2 is absent; no combination makes the call return nothing
\* or evaluate an estimator on a count that was not made.  Violated: with both
\* flags False and distinct samples no branch of lines 1037-1049 returns and the
\* call returns None; with do_auto=False and no sample2, xi_11 is evaluated on
\* D1D1 = None (lines 1034-1036).
C28_EveryFlagCombinationReturns ==
    (in.fn = "angular") =>
        /\ ~EstimatorReadNone
        /\ pc = "returned" => (result.kind = ExpectedResultKind /\ result.kind # "None")

\* when the call returns a correlation result it is the one its flags select
ReturnedResultMatchesFlags ==
    (in.fn = "angular" /\ pc = "returned" /\ result.kind # "None") =>
        result.kind = ExpectedResultKind

\* with do_cross alone, outside and inside the comm path, no estimator is
\* evaluated on a count that was not made
CrossAloneReadsProducedCounts ==
    (in.fn = "angular" /\ ~in.sample2.none /\ in.do_cross /\ ~in.do_auto) =>
        ~EstimatorReadNone

\* DD/DR - 1 in bin i of the auto-correlation counts of the call
DataOverRandomMinusOne(i) ==
    Sub(Div(counts.D1D1.v[i], counts.D1R.v[i]), One)

LabelledPoints ==
    {<<"data", loc.sample1.p[i], loc.j_index_1[i]>> : i \in 1..len(loc.sample1)}
      \cup {<<"data", loc.sample2.p[i], loc.j_index_2[i]>> : i \in 1..len(loc.sample2)}
      \cup {<<"random", loc.randoms.p[i], loc.j_index_random[i]>> : i \in 1..len(loc.randoms)}

\* 0 <= x_d < Lbox_d on every axis
PointInsideBox(x) ==
    \A d \in 1..Len(x) : 0 <= x[d] /\ x[d] < loc.Lbox[d]

\* the grid cell of a point: floor(x_d/dL_d) on every axis, dL = Lbox/Nsub
CellOf(x) ==
    [d \in 1..Len(x) |-> (x[d] * loc.Nsub[d]) \div loc.Lbox[d]]

\* the cells of the grid
GridCells ==
    {c \in [1..Len(loc.Nsub) -> 0..(SeqMax(loc.Nsub) - 1)] :
        \A d \in 1..Len(loc.Nsub) : c[d] < loc.Nsub[d]}

\* the label of a cell: the sum of its indices times the strides, plus 1
LabelOfCell(c) ==
    SeqSum([d \in 1..Len(c) |-> c[d] * strides(loc.Nsub)[d]]) + 1

\* C30: for every Nsub, equal or not along the axes, and every two points of
\* sample1, sample2 and randoms with 0 <= x_i < Lbox_i, get_subvolume_labels gives
\* the two points the same label if and only if they are in the same grid cell on
\* every axis; the labels of the cells are a bijection between the cells and
\* 1..product of Nsub_i; a data point and a random point of one cell share
\* their label.
C30_SameLabelIffSameCell ==
    Labelled =>
        /\ \A a \in LabelledPoints : \A b \in LabelledPoints :
              (PointInsideBox(a[2]) /\ PointInsideBox(b[2])) =>
                  /\ a[3] = LabelOfCell(CellOf(a[2]))
                  /\ (a[3] = b[3]) <=> (CellOf(a[2]) = CellOf(b[2]))
        /\ {LabelOfCell(c) : c \in GridCells} = 1..SeqProd(loc.Nsub)
        /\ \A c \in GridCells : \A e \in GridCells :
              LabelOfCell(c) = LabelOfCell(e) => c = e
        /\ loc.N_sub_vol = SeqProd(loc.Nsub)

\* a grid of 2 by 3 cells: a data point and a random point share a cell and a
\* label, two data points are in different cells, and a point has the label 6
C30_Witness ==
    /\ Labelled /\ loc.Nsub = <<2, 3>>
    /\ \E a \in LabelledPoints : \E b \in LabelledPoints :
          /\ a[1] = "data" /\ b[1] = "random"
          /\ PointInsideBox(a[2]) /\ PointInsideBox(b[2])
          /\ a[2] # b[2] /\ CellOf(a[2]) = CellOf(b[2]) /\ a[3] = b[3]
    /\ \E a \in LabelledPoints : \E b \in LabelledPoints :
          /\ a[1] = "data" /\ b[1] = "data"
          /\ PointInsideBox(a[2]) /\ PointInsideBox(b[2])
          /\ a[3] # b[3]
    /\ \E a \in LabelledPoints : PointInsideBox(a[2]) /\ a[3] = 6

====
